---------------------------- MODULE Spec2Model ----------------------------
(***************************************************************************)
(* A model of the slursbot ingestion pipeline (croppyQL/kiancat):          *)
(*   db.py         upsert_messages, insert_raw_rows, get_max_oz_id,        *)
(*                 upsert_oz_players                                       *)
(*   main.py       _apply_allowlist_filter, run_pull                       *)
(*   slurs_api.py  _chunk, _page_request, _paginate, _fetch_chunk,         *)
(*                 fetch_messages_for_steamids                             *)
(*   ozf_roster.py probe_user, refresh                                     *)
(*                                                                         *)
(* Python strings are sequences of one-character strings.  An optional     *)
(* value (a dict key that may be missing or None) is None == << >> or      *)
(* Some(v) == << v >>.                                                     *)
(***************************************************************************)
EXTENDS Integers, Sequences, FiniteSets, TLC

VARIABLES
    msg,        \* dbo.slurs_msg: the validated message store, in insert order
    raw,        \* dbo.slurs_raw: the raw audit store, in insert order
    call,       \* the last finished db / pull operation: its input and result
    oz,         \* kian.oz.players: the set of roster entries, keyed by oz_id
    rf,         \* ozf_roster.refresh: the locals of the running refresh
    fx,         \* slurs_api.fetch_messages_for_steamids: the locals of the running fetch
    wm,         \* dbo.slurs_state.last_success_utc: the watermark
    dy          \* main.run_daily: the position and the outcomes of the running daily run

vars == <<msg, raw, call, oz, rf, fx, wm, dy>>

-----------------------------------------------------------------------------
(* Bounds of the model *)

\* longest `rows` list handed to one upsert_messages / insert_raw_rows call
MaxRows == 2
\* no run_pull is started once the raw store holds this many rows
MaxRaw == 2
\* largest max_probe of the modelled refresh runs
MaxProbe == 3
\* largest stop_after_404 of the modelled refresh runs
MaxStop == 2
\* no refresh is started once the roster holds an oz_id this large
MaxBase == 3
\* largest oz_id of the rows handed to a direct upsert_oz_players call
MaxOzRowId == 2
\* number of run_daily runs
MaxRuns == 2
\* longest generated input string of _steam3_to_steam64
MaxIdLen == 3

-----------------------------------------------------------------------------
(* Python values *)

None == << >>
Some(v) == << v >>

\* the empty str
Empty == << >>

IsNone(o) == o = None

\* Python truthiness of an optional str: None and "" are falsy
Truthy(o) == o # None /\ o[1] # Empty

\* `a or b` on optional strs
Or(a, b) == IF Truthy(a) THEN a ELSE b

Digits == {"0", "1", "2", "3", "4", "5", "6", "7", "8", "9"}

Whitespace == {" "}

\* str.isdigit(): non-empty and every character a digit
IsDigit(s) == Len(s) > 0 /\ \A i \in 1..Len(s) : s[i] \in Digits

RECURSIVE LStrip(_)
LStrip(s) == IF s # Empty /\ s[1] \in Whitespace THEN LStrip(Tail(s)) ELSE s

RECURSIVE RStrip(_)
RStrip(s) ==
    IF s # Empty /\ s[Len(s)] \in Whitespace THEN RStrip(SubSeq(s, 1, Len(s) - 1)) ELSE s

\* str.strip()
Strip(s) == RStrip(LStrip(s))

\* "|".join(parts)
RECURSIVE Join(_)
Join(parts) ==
    IF Len(parts) = 0 THEN Empty
    ELSE IF Len(parts) = 1 THEN parts[1]
    ELSE parts[1] \o <<"|">> \o Join(Tail(parts))

\* sequences over S of length 0..n
SeqsUpTo(S, n) == UNION {[1..k -> S] : k \in 0..n}


-----------------------------------------------------------------------------
(* Sample values: account ids, timestamps, message texts, rows *)

\* "76561197960265729" and "76561197960265730": two canonical 17-digit ids
SidA == <<"7","6","5","6","1","1","9","7","9","6","0","2","6","5","7","2","9">>
SidB == <<"7","6","5","6","1","1","9","7","9","6","0","2","6","5","7","3","0">>
\* "[U:1:1]": a short-form id
Sid3 == <<"[","U",":","1",":","1","]">>

\* two timestamp strings (stand-ins for "2025-01-01T00:00:00Z" and a later one)
T1 == <<"2","0","2","5","Z">>
T2 == <<"2","0","2","6","Z">>

TxBad == <<"b","a","d">>                    \* "bad": a lexicon term
TxOk == <<"o","k">>                         \* "ok": an allow-list term
TxOkBad == <<"o","k"," ","B","A","D">>      \* "ok BAD": both, the slur in upper case
TxHello == <<"h","i">>                      \* "hi": neither

RowKeys ==
    {"steamid64", "steamid", "msg_time_iso", "logdate", "messagedate",
     "text", "message", "message_id", "logid"}

\* the dict with no key set; r.get(k) is r[k], None when the key is missing
NoRow == [k \in RowKeys |-> None]

\* a row as fetch_messages_for_steamids returns it (slurs_api.py:396-416 has set
\* msg_time_iso, text and steamid64 from whichever upstream key was present)
Fetched(sid, ts, text, logid) ==
    [NoRow EXCEPT !.steamid64 = sid, !.steamid = sid,
                  !.msg_time_iso = ts, !.logdate = ts, !.messagedate = ts,
                  !.text = text, !.message = text, !.logid = logid]

F1 == Fetched(Some(SidA), Some(T1), Some(TxBad), Some(<<"7">>))
F2 == Fetched(Some(SidA), Some(T1), Some(TxOk), Some(<<"7">>))
\* a row missing its timestamp
F3 == Fetched(Some(SidA), None, Some(TxBad), None)
F4 == Fetched(Some(SidB), Some(T2), Some(TxOkBad), None)
\* a row with no account id at all
F5 == Fetched(None, Some(T1), Some(TxHello), None)

\* rows the fetcher can return
FetchedRows == {F1, F2, F3, F4, F5}

\* the older shape {'steamid64','text','msg_time_iso','logid'}: the key of F1 again
\* (the timestamp differs only by surrounding blanks), another message_id and logid
U1 == [NoRow EXCEPT !.steamid64 = Some(SidA), !.msg_time_iso = Some(<<" ">> \o T1),
                    !.text = Some(TxBad), !.message_id = Some(<<"2">>)]
\* the slurs_api shape {'steamid','message','logdate','logid'}, the id padded
U2 == [NoRow EXCEPT !.steamid = Some(SidB \o <<" ">>), !.logdate = Some(T1),
                    !.message = Some(TxBad), !.logid = Some(<<"x">>)]
\* a 16-digit id
U3 == [F1 EXCEPT !.steamid64 = Some(Tail(SidA)), !.steamid = None]
\* an empty text
U4 == [F1 EXCEPT !.text = Some(Empty), !.message = None]
\* a timestamp of blanks only
U5 == [F1 EXCEPT !.msg_time_iso = Some(<<" ">>), !.logdate = None, !.messagedate = None]
\* a short-form id that was not converted
U6 == [F1 EXCEPT !.steamid64 = None, !.steamid = Some(Sid3)]

\* two rows of one account whose timestamp or text holds the character "|":
\* timestamp "2025Z" with text "b|a", and timestamp "2025Z|b" with text "a"
P1 == Fetched(Some(SidA), Some(T1), Some(<<"b","|","a">>), None)
P2 == Fetched(Some(SidA), Some(T1 \o <<"|","b">>), Some(<<"a">>), None)
PipeRows == {P1, P2}

\* rows a caller hands to upsert_messages: a valid row, its key again, a valid row
\* of another account, a row missing its timestamp ...
CoreRows == {F1, U1, U2, F3}
\* ... and rows failing one validation test each
EdgeRows == {U3, U4, U5, U6}
SampleRows == CoreRows \cup EdgeRows

\* the `rows` lists of the modelled calls: every list of up to MaxRows core rows, and
\* each failing row alone, before and after each core row
UpsertInputs ==
    SeqsUpTo(CoreRows, MaxRows)
        \cup {<<e>> : e \in EdgeRows}
        \cup {<<e, c>> : e \in EdgeRows, c \in CoreRows}
        \cup {<<c, e>> : e \in EdgeRows, c \in CoreRows}
        \cup (SeqsUpTo(PipeRows, MaxRows) \ {<< >>})

-----------------------------------------------------------------------------
(* db.py: upsert_messages *)

\* sid_str: str(r.get("steamid64") or r.get("steamid")).strip(), "" when None
SidStr(r) ==
    LET sid == Or(r.steamid64, r.steamid)
    IN  IF sid # None THEN Strip(sid[1]) ELSE Empty

\* iso: (msg_time_iso or logdate or messagedate or "").strip()
IsoOf(r) == Strip(Or(r.msg_time_iso, Or(r.logdate, Or(r.messagedate, Some(Empty))))[1])

\* text: r.get("text") or r.get("message")
TextOf(r) == Or(r.text, r.message)

\* a mutant of RowValid: the timestamp check is lost
RowValidNoTimestamp(r) ==
    /\ IsDigit(SidStr(r)) /\ Len(SidStr(r)) = 17
    /\ Truthy(TextOf(r))

\* the two validation tests of the loop: a row passing both is handed to the INSERT
RowValid(r) ==
    /\ IsDigit(SidStr(r)) /\ Len(SidStr(r)) = 17
    /\ IsoOf(r) # Empty /\ Truthy(TextOf(r))

\* logid: int(logid_raw) when it is all digits, else None
LogidOf(r) ==
    IF r.logid # None /\ IsDigit(Strip(r.logid[1])) THEN Some(Strip(r.logid[1])) ELSE None

\* hk: sha256 of "sid|iso|text"; the digest is modelled as collision-free, so the
\* key is the hashed string itself
HashKey(r) == Join(<<SidStr(r), IsoOf(r), TextOf(r)[1]>>)

\* the record the INSERT writes for a valid row
MsgRecord(r) ==
    [message_id |-> r.message_id, steamid64 |-> SidStr(r), logid |-> LogidOf(r),
     msg_time_utc |-> IsoOf(r), text |-> TextOf(r)[1], hash_key |-> HashKey(r)]

\* a mutant of HashKeyExists: the guard of the INSERT is lost
HashKeyExistsNever(tbl, hk) == FALSE

\* EXISTS (SELECT 1 FROM tbl WHERE hash_key = hk)
HashKeyExists(tbl, hk) == \E i \in 1..Len(tbl) : tbl[i].hash_key = hk

\* a mutant of InsertIfNotExists: a row whose key is stored overwrites the record
InsertOrUpdate(tbl, r) ==
    IF HashKeyExists(tbl, HashKey(r))
    THEN [i \in 1..Len(tbl) |-> IF tbl[i].hash_key = HashKey(r) THEN MsgRecord(r) ELSE tbl[i]]
    ELSE Append(tbl, MsgRecord(r))

\* the statement `IF NOT EXISTS (SELECT 1 ... WHERE hash_key = ?) INSERT INTO ...`
\* run for the valid row r on table tbl
InsertIfNotExists(tbl, r) ==
    IF HashKeyExists(tbl, HashKey(r)) THEN tbl ELSE Append(tbl, MsgRecord(r))

\* cur.rowcount after the statement ran without inserting.  pyodbc documents
\* rowcount as "-1 if no SQL has been executed or if the number of rows is
\* unknown"; a batch whose IF skipped its INSERT reports no count, so the value
\* the driver hands back is one of these.
SkipRowcounts == {0, -1}

\* `if cur.rowcount: inserted += 1`
CountedAsInserted(rowcount) == IF rowcount # 0 THEN 1 ELSE 0

\* the for loop of upsert_messages over `rows`, from table tbl and counter inserted;
\* skipRc is what cur.rowcount reads after a statement that inserted nothing
RECURSIVE UpsertLoop(_, _, _, _)
UpsertLoop(rows, skipRc, tbl, inserted) ==
    IF rows = << >> THEN [tbl |-> tbl, inserted |-> inserted]
    ELSE LET r == Head(rows)
         IN  IF ~RowValid(r) THEN UpsertLoop(Tail(rows), skipRc, tbl, inserted)
             ELSE UpsertLoop(Tail(rows), skipRc, InsertIfNotExists(tbl, r),
                             inserted + CountedAsInserted(IF HashKeyExists(tbl, HashKey(r))
                                                          THEN skipRc ELSE 1))

\* upsert_messages(rows) on table tbl: the table after the commit and the count
\* returned.  dbOk = FALSE is a statement or the connection raising: nothing is
\* committed and the call raises.
UpsertMessagesResult(rows, skipRc, dbOk, tbl) ==
    IF rows = << >> THEN [tbl |-> tbl, ret |-> 0, raised |-> FALSE]
    ELSE IF ~dbOk THEN [tbl |-> tbl, ret |-> 0, raised |-> TRUE]
    ELSE LET res == UpsertLoop(rows, skipRc, tbl, 0)
         IN  [tbl |-> res.tbl, ret |-> res.inserted, raised |-> FALSE]

\* a caller runs upsert_messages(rows)
UpsertMessages ==
    \E rows \in UpsertInputs, skipRc \in SkipRowcounts, dbOk \in BOOLEAN :
        LET res == UpsertMessagesResult(rows, skipRc, dbOk, msg)
        IN  /\ msg' = res.tbl
            /\ call' = [op |-> "upsert_messages", rows |-> rows, dbOk |-> dbOk,
                        ret |-> res.ret, raised |-> res.raised]
            /\ UNCHANGED <<raw, oz, rf, fx, wm, dy>>

NoCall == [op |-> "none", rows |-> << >>, dbOk |-> TRUE, ret |-> 0, raised |-> FALSE]

Init ==
    /\ msg = << >>
    /\ raw = << >>
    /\ call = NoCall
    /\ oz = {}
    /\ rf = << >>
    /\ fx = << >>
    /\ wm = << >>
    /\ dy = << >>

Next == UpsertMessages

Spec == Init /\ [][Next]_vars

-----------------------------------------------------------------------------
(* db.py: insert_raw_rows *)

\* int(x) if x is not None and str(x).strip().isdigit() else None
IntOrNone(o) == IF o # None /\ IsDigit(Strip(o[1])) THEN Some(Strip(o[1])) ELSE None

\* the values insert_raw_rows binds for one row; no row of the pipeline carries
\* "source" or "payload_json", so these are the default and None
RawRecord(r) ==
    [source |-> <<"s","l","u","r","s",".","t","f">>,
     message_id |-> r.message_id,
     steamid64 |-> IntOrNone(Or(r.steamid, r.steamid64)),
     logid |-> IntOrNone(r.logid),
     logdate_txt |-> Or(r.logdate, Or(r.msg_time_iso, r.messagedate)),
     text |-> Or(r.message, r.text),
     payload_json |-> None]

\* a mutant of RawRecords: a row already written by this call is not written again
RECURSIVE RawRecordsDeduplicated(_)
RawRecordsDeduplicated(rows) ==
    IF rows = << >> THEN << >>
    ELSE LET rest == RawRecordsDeduplicated(SubSeq(rows, 1, Len(rows) - 1))
             rec == RawRecord(rows[Len(rows)])
         IN  IF \E k \in 1..Len(rest) : rest[k] = rec THEN rest ELSE Append(rest, rec)

\* the for loop of insert_raw_rows: one INSERT per row, in order
RawRecords(rows) == [k \in 1..Len(rows) |-> RawRecord(rows[k])]

\* insert_raw_rows(rows) on table tbl; dbOk = FALSE is a statement or the
\* connection raising: nothing is committed and the call raises
InsertRawRowsResult(rows, dbOk, tbl) ==
    IF rows = << >> THEN [tbl |-> tbl, ret |-> 0, raised |-> FALSE]
    ELSE IF ~dbOk THEN [tbl |-> tbl, ret |-> 0, raised |-> TRUE]
    ELSE [tbl |-> tbl \o RawRecords(rows), ret |-> Len(rows), raised |-> FALSE]

-----------------------------------------------------------------------------
(* main.py: _apply_allowlist_filter *)

UpperCase == {"A", "B", "D"}
LowerCase == {"a", "b", "d", "h", "i", "k", "o", "s"}

\* the characters the regex class \w matches
WordChars == UpperCase \cup LowerCase \cup Digits \cup {"_"}

\* str.lower() on one character
LowerChar(c) ==
    CASE c = "A" -> "a" [] c = "B" -> "b" [] c = "D" -> "d" [] OTHER -> c

\* str.lower()
Lower(s) == [k \in 1..Len(s) |-> LowerChar(s[k])]

\* a mutant of WordBoundary: the assertion holds everywhere, the terms match as
\* substrings
WordBoundaryAnywhere(t, p) == TRUE

\* the regex assertion \b between t[p] and t[p+1] (p = 0 and p = Len(t): the ends)
WordBoundary(t, p) ==
    LET isWord(k) == k \in 1..Len(t) /\ t[k] \in WordChars
    IN  isWord(p) # isWord(p + 1)

\* re.compile(r"\b(?:w1|w2|...)\b", re.IGNORECASE).search(t) finds a match
WordReSearch(words, t) ==
    \E w \in words : \E a \in 1..Len(t) :
        LET b == a + Len(w) - 1
        IN  /\ b <= Len(t)
            /\ Lower(SubSeq(t, a, b)) = Lower(w)
            /\ WordBoundary(t, a - 1)
            /\ WordBoundary(t, b)

\* str(r.get("message") or r.get("text") or "")
FilterText(r) == Or(r.message, Or(r.text, Some(Empty)))[1]

\* the loop's decision for one row: TRUE = dropped
AllowlistDrops(r, allowWords, lexWords) ==
    /\ ~(lexWords # {} /\ WordReSearch(lexWords, FilterText(r)))
    /\ WordReSearch(allowWords, FilterText(r))

RECURSIVE SelectSeq2(_, _, _)
SelectSeq2(rows, allowWords, lexWords) ==
    IF rows = << >> THEN << >>
    ELSE IF AllowlistDrops(Head(rows), allowWords, lexWords)
         THEN SelectSeq2(Tail(rows), allowWords, lexWords)
         ELSE <<Head(rows)>> \o SelectSeq2(Tail(rows), allowWords, lexWords)

\* _apply_allowlist_filter(rows) under ALLOWLIST_DROP = doDrop and the two word lists
ApplyAllowlistFilter(rows, doDrop, allowWords, lexWords) ==
    IF ~doDrop \/ allowWords = {}
    THEN [kept |-> rows, enabled |-> FALSE, dropped |-> 0, nkept |-> Len(rows)]
    ELSE LET kept == SelectSeq2(rows, allowWords, lexWords)
         IN  [kept |-> kept, enabled |-> TRUE,
              dropped |-> Len(rows) - Len(kept), nkept |-> Len(kept)]

\* the filter settings of the modelled deployments: ALLOWLIST_DROP, allowlist.yaml
\* and lexicon.yaml (off and empty by default)
FilterConfigs ==
    {[doDrop |-> FALSE, allowWords |-> {}, lexWords |-> {}],
     [doDrop |-> TRUE, allowWords |-> {}, lexWords |-> {TxBad}],
     [doDrop |-> TRUE, allowWords |-> {TxOk}, lexWords |-> {}],
     [doDrop |-> TRUE, allowWords |-> {TxOk}, lexWords |-> {TxBad}]}

\* message texts that hold a term inside a longer word
TxOkBads == <<"o","k"," ","b","a","d","s">>   \* "ok bads"
TxOki == <<"o","k","i">>                      \* "oki"

G1 == Fetched(Some(SidA), Some(T1), Some(TxOkBads), None)
G2 == Fetched(Some(SidA), Some(T1), Some(TxOki), None)
\* a row of the older shape, with "text" and no "message"
G3 == [Fetched(Some(SidB), Some(T1), Some(TxOk), None) EXCEPT !.message = None]

\* the rows of the modelled _apply_allowlist_filter calls
FilterRows == {F1, F2, F4, F5, G1, G2, G3}

\* _apply_allowlist_filter(call.rows) is called under the settings call.cfg and
\* returns (kept, stats)
ApplyAllowlistFilterCall ==
    /\ call.op = "none"
    /\ call' = [call EXCEPT !.op = "_apply_allowlist_filter",
                            !.ret = ApplyAllowlistFilter(call.rows, call.cfg.doDrop,
                                                         call.cfg.allowWords,
                                                         call.cfg.lexWords)]
    /\ UNCHANGED <<msg, raw, oz, rf, fx, wm, dy>>

InitFilter ==
    /\ msg = << >>
    /\ raw = << >>
    /\ \E rows \in SeqsUpTo(FilterRows, MaxRows), cfg \in FilterConfigs :
        call = [op |-> "none", rows |-> rows, cfg |-> cfg,
                ret |-> [kept |-> << >>, enabled |-> FALSE, dropped |-> 0, nkept |-> 0]]
    /\ oz = {}
    /\ rf = << >>
    /\ fx = << >>
    /\ wm = << >>
    /\ dy = << >>

NextFilter == ApplyAllowlistFilterCall

SpecFilter == InitFilter /\ [][NextFilter]_vars

-----------------------------------------------------------------------------
(* main.py: run_pull *)

\* rows the fetcher returns to the modelled pulls
PullRows == {F1, F2, F3}

\* run_pull up to its first write: the roster ids are read, the fetcher returns
\* `data`, the filter keeps `kept`; with nothing kept run_pull returns (0, 0)
PullFetch ==
    /\ call.pc \in {"idle", "done"}
    /\ Len(raw) < MaxRaw
    /\ \E data \in SeqsUpTo(PullRows, MaxRows), cfg \in FilterConfigs :
        LET kept == ApplyAllowlistFilter(data, cfg.doDrop, cfg.allowWords, cfg.lexWords).kept
        IN  call' = [pc |-> IF kept = << >> THEN "done" ELSE "raw",
                     fetched |-> data, kept |-> kept, connOk |-> TRUE, rawOk |-> TRUE,
                     upOk |-> TRUE, ret |-> <<0, 0>>, raised |-> FALSE]
    /\ UNCHANGED <<msg, raw, oz, rf, fx, wm, dy>>

\* run_pull raises before it writes anything: reading the roster ids raised, or the
\* fetch raised and the single-id fetch of the except branch raised too
PullRaises ==
    /\ call.pc \in {"idle", "done"}
    /\ call' = [pc |-> "done", fetched |-> << >>, kept |-> << >>, connOk |-> TRUE,
                rawOk |-> TRUE, upOk |-> TRUE, ret |-> <<0, 0>>, raised |-> TRUE]
    /\ UNCHANGED <<msg, raw, oz, rf, fx, wm, dy>>

\* `with db.get_conn() as conn:` around the two writes: opening that connection
\* raises, outside any try
PullOpenConnRaises ==
    /\ call.pc = "raw"
    /\ call' = [call EXCEPT !.pc = "done", !.connOk = FALSE, !.raised = TRUE]
    /\ UNCHANGED <<msg, raw, oz, rf, fx, wm, dy>>

\* a mutant of AfterRawInsert: a failed raw insert ends the pull
RawFailureEndsPull(rawOk) == IF rawOk THEN "upsert" ELSE "done"

\* where run_pull goes on after the try/except around insert_raw_rows: the except
\* clause logs and falls through
AfterRawInsert(rawOk) == "upsert"

\* try: inserted_raw = db.insert_raw_rows(data, raw_table)
PullInsertRaw ==
    /\ call.pc = "raw"
    /\ \E rawOk \in BOOLEAN :
        LET res == InsertRawRowsResult(call.kept, rawOk, raw)
        IN  /\ raw' = res.tbl
            /\ call' = [call EXCEPT !.pc = AfterRawInsert(rawOk), !.rawOk = rawOk,
                                    !.ret[1] = res.ret]
    /\ UNCHANGED <<msg, oz, rf, fx, wm, dy>>

\* try: upserted = db.upsert_messages(data, msg_table); the `with` block is left,
\* which commits on the connection opened around the writes and raises if that
\* fails (exitOk = FALSE); return (inserted_raw, upserted)
PullUpsert ==
    /\ call.pc = "upsert"
    /\ \E upOk \in BOOLEAN, skipRc \in SkipRowcounts, exitOk \in BOOLEAN :
        LET res == UpsertMessagesResult(call.kept, skipRc, upOk, msg)
        IN  /\ msg' = res.tbl
            /\ call' = [call EXCEPT !.pc = "done", !.upOk = upOk, !.ret[2] = res.ret,
                                    !.connOk = exitOk, !.raised = ~exitOk]
    /\ UNCHANGED <<raw, oz, rf, fx, wm, dy>>

NoPull == [pc |-> "idle", fetched |-> << >>, kept |-> << >>, connOk |-> TRUE,
           rawOk |-> TRUE, upOk |-> TRUE, ret |-> <<0, 0>>, raised |-> FALSE]

InitPull ==
    /\ msg = << >>
    /\ raw = << >>
    /\ call = NoPull
    /\ oz = {}
    /\ rf = << >>
    /\ fx = << >>
    /\ wm = << >>
    /\ dy = << >>

NextPull == PullFetch \/ PullRaises \/ PullOpenConnRaises \/ PullInsertRaw \/ PullUpsert

SpecPull == InitPull /\ [][NextPull]_vars

-----------------------------------------------------------------------------
(* slurs_api.py: the message fetcher *)

\* DEFAULT_BATCH_SIZE = min(SLURS_BATCH_SIZE or 10, 10): the per-request id cap
PerRequestCap == 10

\* longest retries_s schedule of the modelled calls
MaxRetries == 2
\* largest page size `limit` of the modelled calls
MaxLimit == 2

\* DEFAULT_RETRIES_S
DefaultRetriesS == <<10, 30, 300, 900>>

Min(a, b) == IF a < b THEN a ELSE b
Max(a, b) == IF a > b THEN a ELSE b

\* a mutant of Chunk: a last batch shorter than size is not yielded
ChunkFullOnly(seq, size) ==
    LET sz == Max(1, size)
        n == Len(seq) \div sz
    IN  [k \in 1..n |-> SubSeq(seq, (k - 1) * sz + 1, k * sz)]

\* list(_chunk(seq, size)): the batches, in order
Chunk(seq, size) ==
    LET sz == Max(1, size)
        n == (Len(seq) + sz - 1) \div sz
    IN  [k \in 1..n |-> SubSeq(seq, (k - 1) * sz + 1, Min(k * sz, Len(seq)))]

\* `w in t` on strs
IsSubstring(w, t) ==
    \E a \in 1..(Len(t) + 1) : a + Len(w) - 1 <= Len(t) /\ SubSeq(t, a, a + Len(w) - 1) = w

\* _text_contains_any(text, words)
TextContainsAny(text, words) ==
    /\ text # Empty
    /\ words # {}
    /\ \E w \in words : IsSubstring(w, Lower(text))

\* str(r.get("message", ""))
MessageStr(r) == IF r.message = None THEN Empty ELSE r.message[1]

\* the statuses _page_request reports for a soft failure: HTTP codes, and the
\* failures _get_json and _page_request name
SoftStatuses == {"500", "501", "timeout", "non_json"}

\* the statuses _fetch_chunk answers with the fallback
Serverish == {"500", "502", "503", "504", "timeout", "conn_err", "non_json", "empty"}

\* an element of a response's "data" list: a dict with a message, or (dict = FALSE)
\* something that is no dict at all, such as null
ApiRow(idx, text) == [idx |-> idx, message |-> text, dict |-> TRUE]
NonDictRow(idx) == [idx |-> idx, message |-> None, dict |-> FALSE]

\* what the upstream holds for a batch: the rows a classified request pages
\* through, and the rows an unclassified request pages through
UpstreamSamples ==
    {[cat |-> <<ApiRow(1, Some(TxBad)), ApiRow(2, Some(TxOkBad))>>,
      nocat |-> <<ApiRow(1, Some(TxHello)), ApiRow(2, Some(TxOkBad))>>],
     [cat |-> <<NonDictRow(1)>>,
      nocat |-> <<ApiRow(1, Some(TxBad))>>],
     [cat |-> <<ApiRow(1, Some(TxBad))>>,
      nocat |-> <<ApiRow(1, None), NonDictRow(2)>>]}

\* the lexicon.yaml word lists of the modelled calls: missing or empty, and one term
Lexicons == {{}, {TxBad}}

\* the ids 1 .. n
FirstIds(n) == [k \in 1..n |-> k]

\* an element x of steamids passes `str(x).isdigit()`: of the ints, those without
\* a sign
IsNumericId(x) == x >= 0

\* ids = [int(x) for x in steamids if str(x).isdigit()]
NumericIds(steamids) == SelectSeq(steamids, IsNumericId)

\* the (steamids, batch_size) pairs of the modelled calls
IdBatchPairs ==
    {<<FirstIds(0), 1>>, <<FirstIds(2), 0>>, <<FirstIds(2), 1>>, <<FirstIds(3), 2>>,
     <<FirstIds(PerRequestCap + 1), PerRequestCap>>,
     <<FirstIds(PerRequestCap + 1), PerRequestCap + 1>>,
     <<<<1, -1, 1, 2>>, 2>>, <<<<-1>>, 1>>}

\* the arguments and the environment of one fetch_messages_for_steamids call
FetchCalls ==
    {[ids |-> nb[1], batch |-> nb[2], category |-> c, limit |-> l,
      retries |-> SubSeq(DefaultRetriesS, 1, nr), lex |-> lx, up |-> u] :
        nb \in IdBatchPairs, c \in BOOLEAN, l \in 1..MaxLimit,
        nr \in {0, MaxRetries}, lx \in Lexicons, u \in UpstreamSamples}

\* the batches of the running call
FxChunks == Chunk(fx.ids, fx.batch)

\* include_category of the running pagination
FxCat == fx.phase = "first" /\ fx.category

\* fx.log holds the page requests and the backoff sleeps of the running batch, in
\* order; fx.lastStatus holds last_status from the first failure of a page until
\* that page succeeds or its pagination returns (the only places it is read);
\* fx.tried holds the values of `status` that _page_request returned for the page
\* being retried, one per failed try, until the page succeeds or _paginate returns

\* the log holds at most LogCap events of a batch and starts over when it is full.
\* LogCap is more than a batch paged with a limit of 1 or more can produce: two
\* paginations of at most three pages, each page tried 1 + MaxRetries times with a
\* sleep before each retry
LogCap == 2 * 3 * (1 + 2 * MaxRetries)

Logged(log, events) ==
    IF Len(log) + Len(events) <= LogCap THEN log \o events ELSE events

\* the log entry of a page request, and of a backoff sleep
ReqEvent(f, cat) ==
    [ev |-> "req", ids |-> Chunk(f.ids, f.batch)[f.ci], offset |-> f.offset, cat |-> cat,
     secs |-> 0]
SleepEvent(s) == [ev |-> "sleep", ids |-> << >>, offset |-> 0, cat |-> FALSE, secs |-> s]

\* the "data" of a successful response to the request at f.offset: the upstream's
\* rows offset .. offset+limit-1, each marked with the batch and with whether the
\* request carried the classification parameter
Page(f, cat) ==
    LET all == IF cat THEN f.up.cat ELSE f.up.nocat
        rows == SubSeq(all, f.offset + 1, Min(f.offset + f.limit, Len(all)))
    IN  [k \in 1..Len(rows) |->
            [idx |-> rows[k].idx, message |-> rows[k].message, dict |-> rows[k].dict,
             viaCat |-> cat, chunk |-> f.ci]]

\* the loop body at slurs_api.py:401-416 for a dict row: "text" is set from "message"
NormalizeRow(r) ==
    [idx |-> r.idx, message |-> r.message, text |-> r.message, viaCat |-> r.viaCat,
     chunk |-> r.chunk]

HasNonDict(rows) == \E k \in 1..Len(rows) : ~rows[k].dict

\* _fetch_chunk is entered for batch k; past the last batch the call returns all_rows
BeginChunk(f, k) ==
    IF k > Len(Chunk(f.ids, f.batch)) THEN [f EXCEPT !.pc = "done"]
    ELSE [f EXCEPT !.pc = "request", !.ci = k, !.phase = "first", !.offset = 0,
                   !.out = << >>, !.rows1 = << >>, !.lastStatus = "", !.retry = 0,
                   !.log = << >>]

\* the batch ends with raw_rows (nothing, when _fetch_chunk raised): its rows are
\* normalised outside the try, where a row that is no dict raises out of the call
EndChunk(f, rawRows, how) ==
    LET g == [f EXCEPT !.finished = Append(@, [chunk |-> f.ci, how |-> how, rows |-> rawRows,
                                               ids |-> Chunk(f.ids, f.batch)[f.ci]])]
    IN  IF HasNonDict(rawRows) THEN [g EXCEPT !.pc = "raised"]
        ELSE BeginChunk([g EXCEPT !.allRows =
                            @ \o [k \in 1..Len(rawRows) |-> NormalizeRow(rawRows[k])]],
                        f.ci + 1)

\* a mutant of FallbackRows: an empty lexicon lets the unclassified rows through
FallbackRowsFailOpen(rows2, lexWords) ==
    IF lexWords = {} THEN rows2
    ELSE LET hit(r) == TextContainsAny(MessageStr(r), lexWords) IN SelectSeq(rows2, hit)

\* a mutant of FallbackRows: the unclassified rows are returned unfiltered
FallbackRowsUnfiltered(rows2, lexWords) ==
    IF lexWords = {} THEN << >> ELSE rows2

\* what _fetch_chunk returns after a successful fallback pagination of rows2
FallbackRows(rows2, lexWords) ==
    IF lexWords = {} THEN << >>
    ELSE LET hit(r) == TextContainsAny(MessageStr(r), lexWords) IN SelectSeq(rows2, hit)

\* a mutant of FallbackStartOffset: the fallback starts at the page that failed
FallbackStartOffsetSamePage(k) == k

\* the second _paginate call begins with `offset = 0`, whatever the offset k at
\* which the first gave up
FallbackStartOffset(k) == 0

\* _paginate returned (ok, f.out, f.lastStatus) to _fetch_chunk
PaginateEnd(f, ok) ==
    IF f.phase = "first"
    THEN IF ok THEN EndChunk(f, f.out, "ok")
         ELSE IF f.category /\ f.lastStatus \in Serverish
              THEN [f EXCEPT !.pc = "request", !.phase = "fallback", !.rows1 = f.out,
                             !.out = << >>, !.offset = FallbackStartOffset(f.offset),
                             !.retry = 0, !.lastStatus = ""]
              ELSE EndChunk(f, f.out, "failed")
    ELSE IF ~ok THEN EndChunk(f, f.rows1, "fallback_failed")
         ELSE IF f.lex # {} /\ HasNonDict(f.out) THEN EndChunk(f, << >>, "raised")
              ELSE EndChunk(f, FallbackRows(f.out, f.lex), "fallback_ok")

\* a mutant of NextOffset: the offset is not advanced by the page size
NextOffsetPlusOne(offset, limit) == offset + 1

\* offset += limit
NextOffset(offset, limit) == offset + limit

\* a mutant of RetryAgain: the retry loop ends after its first round
RetryAgainNever(j, retries) == FALSE

\* the `for s in retries_s` loop goes on after the j-th retry failed
RetryAgain(j, retries) == j < Len(retries)

\* a mutant of LastPage: a full page ends the pagination as well
LastPageAtMost(rows, limit) == Len(rows) <= limit

\* `if len(rows) < limit: return True, out, None`
LastPage(rows, limit) == Len(rows) < limit

\* the response to the page request just logged: "ok" (a dict with "data"), "raise"
\* (a body that is JSON but no dict: resp.get raises), or a soft status
OnResponse(f, cat, outcome) ==
    IF outcome = "raise" THEN EndChunk([f EXCEPT !.tried = << >>], << >>, "raised")
    ELSE IF outcome = "ok"
    THEN LET rows == Page(f, cat)
             g == [f EXCEPT !.out = @ \o rows, !.retry = 0, !.lastStatus = "",
                            !.tried = << >>]
         IN  IF LastPage(rows, f.limit) THEN PaginateEnd(g, TRUE)
             ELSE [g EXCEPT !.pc = "request", !.offset = NextOffset(f.offset, f.limit)]
    ELSE IF f.retry = 0
         THEN LET g == [f EXCEPT !.lastStatus = outcome]
              IN  IF f.retries = << >> THEN PaginateEnd(g, FALSE)
                  ELSE [g EXCEPT !.pc = "retry", !.retry = 1, !.tried = <<outcome>>]
         ELSE IF RetryAgain(f.retry, f.retries)
              THEN [f EXCEPT !.retry = @ + 1, !.tried = Append(@, outcome)]
              ELSE PaginateEnd([f EXCEPT !.tried = << >>], FALSE)

Outcomes == {"ok", "raise"} \cup SoftStatuses

\* fetch_messages_for_steamids is entered: `if not steamids: return []`, then ids
\* is built from steamids
FetchEnter ==
    /\ fx.pc = "start"
    /\ fx' = IF fx.steamids = << >> THEN [fx EXCEPT !.pc = "done"]
             ELSE BeginChunk([fx EXCEPT !.ids = NumericIds(fx.steamids)], 1)
    /\ UNCHANGED <<msg, raw, call, oz, rf, wm, dy>>

\* _paginate's first request for the page at fx.offset, and what follows its response
PageRequest ==
    /\ fx.pc = "request"
    /\ \E outcome \in Outcomes :
        fx' = OnResponse([fx EXCEPT !.log = Logged(@, <<ReqEvent(fx, FxCat)>>)],
                         FxCat, outcome)
    /\ UNCHANGED <<msg, raw, call, oz, rf, wm, dy>>

\* one round of the retry loop: sleep the next delay, request the same page again
PageRetry ==
    /\ fx.pc = "retry"
    /\ \E outcome \in Outcomes :
        fx' = OnResponse([fx EXCEPT !.log = Logged(@, <<SleepEvent(fx.retries[fx.retry]),
                                                        ReqEvent(fx, FxCat)>>)],
                         FxCat, outcome)
    /\ UNCHANGED <<msg, raw, call, oz, rf, wm, dy>>

\* the call c of fetch_messages_for_steamids before its first statement
FetchStart(c) ==
    [pc |-> "start", steamids |-> c.ids, ids |-> << >>, batch |-> c.batch,
     category |-> c.category, limit |-> c.limit, retries |-> c.retries, lex |-> c.lex,
     up |-> c.up, ci |-> 0, phase |-> "first", offset |-> 0, out |-> << >>,
     rows1 |-> << >>, lastStatus |-> "", retry |-> 0, allRows |-> << >>, log |-> << >>,
     finished |-> << >>, tried |-> << >>]

InitFetch ==
    /\ msg = << >>
    /\ raw = << >>
    /\ call = NoCall
    /\ oz = {}
    /\ rf = << >>
    /\ \E c \in FetchCalls : fx = FetchStart(c)
    /\ wm = << >>
    /\ dy = << >>

NextFetch == FetchEnter \/ PageRequest \/ PageRetry

SpecFetch == InitFetch /\ [][NextFetch]_vars

\* calls with every page size from 0 on (SLURS_LIMIT and the limit argument are
\* used as given), one id, an upstream of two rows, and no or one retry (none
\* with a page size of 0)
FetchCallsAnyLimit ==
    {[ids |-> FirstIds(1), batch |-> 1, category |-> c, limit |-> lr[1],
      retries |-> SubSeq(DefaultRetriesS, 1, lr[2]), lex |-> {TxBad},
      up |-> [cat |-> <<ApiRow(1, Some(TxBad)), ApiRow(2, Some(TxOkBad))>>,
              nocat |-> <<ApiRow(1, Some(TxHello)), ApiRow(2, Some(TxOkBad))>>]] :
        c \in BOOLEAN,
        lr \in {p \in (0..MaxLimit) \X (0..1) : p[1] = 0 => p[2] = 0}}

InitFetchAnyLimit ==
    /\ msg = << >>
    /\ raw = << >>
    /\ call = NoCall
    /\ oz = {}
    /\ rf = << >>
    /\ \E c \in FetchCallsAnyLimit : fx = FetchStart(c)
    /\ wm = << >>
    /\ dy = << >>

\* the fetcher is sequential code: it always takes its next step
SpecFetchLive == InitFetchAnyLimit /\ [][NextFetch]_vars /\ WF_vars(NextFetch)

-----------------------------------------------------------------------------
(* db.py: get_max_oz_id, upsert_oz_players; ozf_roster.py: probe_user, refresh *)

\* oz is the table kian.oz.players, a set of rows [oz_id, steamid64, current_name]
\* with oz_id the key; steamid64 is nullable

DigitChars == <<"0", "1", "2", "3", "4", "5", "6", "7", "8", "9">>

\* str(n) for an int n >= 0
RECURSIVE IntStr(_)
IntStr(n) ==
    IF n < 10 THEN <<DigitChars[n + 1]>>
    ELSE IntStr(n \div 10) \o <<DigitChars[(n % 10) + 1]>>

\* a mutant of OzfUserPrefix: the literal 'user_'
UserPrefix == <<"u", "s", "e", "r", "_">>

\* the literal 'ozf_user_'
OzfUserPrefix == <<"o", "z", "f", "_", "u", "s", "e", "r", "_">>

\* a scraped display name
NameAl == <<"a", "l">>

\* a mutant of GetMaxOzId: the number of rows instead of the largest oz_id
GetMaxOzIdCount(tbl) == Cardinality(tbl)

\* get_max_oz_id: ISNULL(MAX(CAST(oz_id AS BIGINT)), 0)
GetMaxOzId(tbl) ==
    IF tbl = {} THEN 0
    ELSE CHOOSE m \in {p.oz_id : p \in tbl} : \A q \in tbl : q.oz_id <= m

\* the name upsert_oz_players binds: the stripped current_name, or the placeholder
BoundName(r) ==
    LET nm == IF Truthy(r.current_name) THEN r.current_name[1] ELSE Empty
    IN  IF Strip(nm) # Empty THEN Strip(nm) ELSE OzfUserPrefix \o IntStr(r.oz_id)

\* the MERGE statement with the values bound for row r: src.steamid64 is
\* r.steamid64 and src.current_name is BoundName(r)
MergeOzPlayer(tbl, r) ==
    IF \E p \in tbl : p.oz_id = r.oz_id
    THEN {IF p.oz_id # r.oz_id THEN p
          ELSE [oz_id |-> p.oz_id,
                steamid64 |-> IF r.steamid64 # None THEN r.steamid64 ELSE p.steamid64,
                current_name |-> IF Strip(BoundName(r)) # Empty THEN Strip(BoundName(r))
                                 ELSE p.current_name] : p \in tbl}
    ELSE tbl \cup {[oz_id |-> r.oz_id, steamid64 |-> r.steamid64,
                    current_name |-> Strip(IF BoundName(r) # Empty THEN BoundName(r)
                                           ELSE OzfUserPrefix \o IntStr(r.oz_id))]}

\* a mutant of UpsertOzPlayers: rows without a steamid64 are merged as well, and
\* the MERGE assigns src.steamid64 as it is
RECURSIVE UpsertOzPlayersOverwriting(_, _)
UpsertOzPlayersOverwriting(rows, tbl) ==
    IF rows = << >> THEN [tbl |-> tbl, count |-> 0]
    ELSE LET r == Head(rows)
             merged == IF \E p \in tbl : p.oz_id = r.oz_id
                       THEN {IF p.oz_id # r.oz_id THEN p
                             ELSE [p EXCEPT !.steamid64 = r.steamid64] : p \in tbl}
                       ELSE MergeOzPlayer(tbl, r)
             rest == UpsertOzPlayersOverwriting(Tail(rows), merged)
         IN  [tbl |-> rest.tbl, count |-> rest.count + 1]

\* a mutant of UpsertOzPlayers: the rows merged are not counted
RECURSIVE UpsertOzPlayersUncounted(_, _)
UpsertOzPlayersUncounted(rows, tbl) ==
    IF rows = << >> THEN [tbl |-> tbl, count |-> 0]
    ELSE IF ~Truthy(Head(rows).steamid64) THEN UpsertOzPlayersUncounted(Tail(rows), tbl)
    ELSE UpsertOzPlayersUncounted(Tail(rows), MergeOzPlayer(tbl, Head(rows)))

\* a mutant of UpsertOzPlayers: the statements are executed and counted but never
\* committed
UpsertOzPlayersUncommitted(rows, tbl) ==
    [tbl |-> tbl, count |-> Len(SelectSeq(rows, LAMBDA r : Truthy(r.steamid64)))]

\* upsert_oz_players(conn, rows) on table tbl: the table and the count returned;
\* `if not steamid: continue`
RECURSIVE UpsertOzPlayers(_, _)
UpsertOzPlayers(rows, tbl) ==
    IF rows = << >> THEN [tbl |-> tbl, count |-> 0]
    ELSE LET r == Head(rows)
         IN  IF ~Truthy(r.steamid64) THEN UpsertOzPlayers(Tail(rows), tbl)
             ELSE LET rest == UpsertOzPlayers(Tail(rows), MergeOzPlayer(tbl, r))
                  IN  [tbl |-> rest.tbl, count |-> rest.count + 1]

\* what probe_user(id) returns: the 404 signal, or what the profile page exposes
ProbeResults(id) ==
    {[status |-> "404", oz_id |-> id, steamid64 |-> None, current_name |-> None]}
    \cup {[status |-> "200", oz_id |-> id, steamid64 |-> s, current_name |-> n] :
              s \in {None, Some(SidA)}, n \in {None, Some(NameAl)}}

\* refresh's defaults for max_probe and stop_after_404
DefaultMaxProbe == 300
DefaultStopAfter404 == 20

\* what the roster site holds beyond the ids in storage: "any" (every id may or
\* may not exist) or "frontier" (no id beyond storage exists: every probe is a 404)
SiteResults(site, id) ==
    IF site = "frontier" THEN {r \in ProbeResults(id) : r.status = "404"}
    ELSE ProbeResults(id)

\* the rosters a first refresh may find in storage
InitialRosters ==
    {{},
     {[oz_id |-> 2, steamid64 |-> Some(SidB), current_name |-> NameAl]},
     {[oz_id |-> k, steamid64 |-> Some(SidB), current_name |-> NameAl] : k \in 1..3}}

\* the (max_probe, stop_after_404, site) of the modelled refresh runs
RefreshConfigs ==
    {[maxProbe |-> mp, stopAfter |-> sa, site |-> "any"] :
         mp \in 0..MaxProbe, sa \in 1..MaxStop}
    \cup {[maxProbe |-> DefaultMaxProbe, stopAfter |-> DefaultStopAfter404,
           site |-> "frontier"]}

NoRefresh ==
    [pc |-> "idle", base |-> 0, i |-> 0, checked |-> 0, changed |-> 0, streak |-> 0,
     maxProbe |-> 0, stopAfter |-> 0, site |-> "any", probed |-> << >>,
     results |-> << >>, atStart |-> {}]

\* a mutant of StopAfterReached: the scan goes on until the streak exceeds the
\* threshold
StopAfterExceeded(streak, stopAfter) == streak > stopAfter

\* `if streak_404 >= int(stop_after_404): break`
StopAfterReached(streak, stopAfter) == streak >= stopAfter

\* refresh is called: base = get_max_oz_id(conn) or 0 (the query may fail, which
\* raises out of refresh); range(1, max_probe + 1) may be empty.  rf.atStart
\* records the table as it is at the call, rf.probed the ids probe_user is called
\* with and rf.results what each call returned ("error": it raised)
RefreshEnter ==
    /\ rf.pc \in {"idle", "done", "raised"}
    /\ \E c \in RefreshConfigs, dbOk \in BOOLEAN :
        /\ c.site = "any" => GetMaxOzId(oz) < MaxBase
        /\ rf' = [NoRefresh EXCEPT !.pc = IF ~dbOk THEN "raised"
                                          ELSE IF c.maxProbe = 0 THEN "done" ELSE "probe",
                                   !.base = IF dbOk THEN GetMaxOzId(oz) ELSE 0,
                                   !.i = 1, !.maxProbe = c.maxProbe,
                                   !.stopAfter = c.stopAfter, !.site = c.site,
                                   !.atStart = oz]
    /\ UNCHANGED <<msg, raw, call, oz, fx, wm, dy>>

\* one round of the loop whose probe_user call raises (a timeout, a connection
\* error, raise_for_status on a status other than 404): nothing catches it
RefreshProbeRaises ==
    /\ rf.pc = "probe"
    /\ rf.site = "any"
    /\ rf' = [rf EXCEPT !.pc = "raised", !.probed = Append(@, rf.base + rf.i),
                        !.results = Append(@, [status |-> "error", oz_id |-> rf.base + rf.i,
                                               steamid64 |-> None, current_name |-> None])]
    /\ UNCHANGED <<msg, raw, call, oz, fx, wm, dy>>

\* one round of the loop whose probe_user call returns rec
RefreshProbe ==
    /\ rf.pc = "probe"
    /\ \E rec \in SiteResults(rf.site, rf.base + rf.i), dbOk \in BOOLEAN :
        LET found == Truthy(rec.steamid64)
            up == UpsertOzPlayers(<<rec>>, oz)
            streak == IF found THEN 0 ELSE rf.streak + 1
            stop == StopAfterReached(streak, rf.stopAfter) \/ rf.i = rf.maxProbe
            g == [rf EXCEPT !.probed = Append(@, rf.base + rf.i), !.checked = @ + 1,
                            !.results = Append(@, rec)]
        IN  IF found /\ ~dbOk
            THEN /\ rf' = [g EXCEPT !.pc = "raised", !.streak = 0]
                 /\ oz' = oz
            ELSE /\ rf' = [g EXCEPT !.streak = streak,
                                    !.changed = IF found THEN @ + up.count ELSE @,
                                    !.pc = IF stop THEN "done" ELSE "probe",
                                    !.i = IF stop THEN @ ELSE @ + 1]
                 /\ oz' = IF found THEN up.tbl ELSE oz
    /\ UNCHANGED <<msg, raw, call, fx, wm, dy>>

\* the rows of the modelled direct upsert_oz_players calls
OzRows ==
    {[oz_id |-> k, steamid64 |-> sid, current_name |-> n] :
         k \in 1..MaxOzRowId, sid \in {None, Some(SidA)}, n \in {None, Some(NameAl), Some(<<" ">>)}}

\* the `rows` lists of the modelled direct upsert_oz_players calls
OzUpsertInputs ==
    {<< >>} \cup {<<r>> : r \in OzRows}
    \cup {<<[oz_id |-> 1, steamid64 |-> Some(SidA), current_name |-> None],
            [oz_id |-> 1, steamid64 |-> None, current_name |-> Some(NameAl)]>>}

\* upsert_oz_players is called with rows while no refresh runs; the statements are
\* committed together after the loop, so a failing database leaves the table as it
\* was
UpsertOzPlayersCall ==
    /\ rf.pc \in {"idle", "done", "raised"}
    /\ \E rows \in OzUpsertInputs, dbOk \in BOOLEAN :
        LET up == UpsertOzPlayers(rows, oz)
        IN  /\ oz' = IF dbOk THEN up.tbl ELSE oz
            /\ call' = [op |-> "upsert_oz_players", rows |-> rows, dbOk |-> dbOk,
                        ret |-> IF dbOk THEN up.count ELSE 0, raised |-> ~dbOk]
    /\ UNCHANGED <<msg, raw, rf, fx, wm, dy>>

InitRoster ==
    /\ msg = << >>
    /\ raw = << >>
    /\ call = NoCall
    /\ oz \in InitialRosters
    /\ rf = NoRefresh
    /\ fx = << >>
    /\ wm = << >>
    /\ dy = << >>

NextRoster == RefreshEnter \/ RefreshProbeRaises \/ RefreshProbe

SpecRoster == InitRoster /\ [][NextRoster]_vars

\* direct calls of upsert_oz_players, on the rosters a refresh may have left
InitOzUpsert == InitRoster

NextOzUpsert == UpsertOzPlayersCall

SpecOzUpsert == InitOzUpsert /\ [][NextOzUpsert]_vars

-----------------------------------------------------------------------------
(* main.py: set_watermark, run_daily *)

\* dy.now stands for datetime.now(timezone.utc), in hours, and dy.run counts the
\* runs; the steps of run_daily are, in order: the roster refresh, the pull window,
\* the pull, the reports (HTML, Excel, Discord, report images), the watermark

\* the values of the environment variable LOOKBACK_HOURS: the default, and zero
LookbackHours == {25, 0}

\* the hours between the starts of two runs: a day, and more than the default window
ElapsedHours == {24, 26}

NoDaily ==
    [pc |-> "idle", run |-> 0, now |-> 0, lookback |-> 25, since |-> 0, before |-> 0,
     rosterOk |-> TRUE, batchesOk |-> TRUE, rawOk |-> TRUE, upOk |-> TRUE,
     reportsOk |-> TRUE]

\* since_dt = now_dt - timedelta(hours=max(1, LOOKBACK_HOURS))
SinceDt(nowDt, lookback) == nowDt - Max(1, lookback)

\* run_daily is called
DailyStart ==
    /\ dy.pc \in {"idle", "done", "raised"}
    /\ dy.run < MaxRuns
    /\ \E d \in ElapsedHours, lb \in LookbackHours :
        dy' = [NoDaily EXCEPT !.pc = "refresh", !.run = dy.run + 1, !.now = dy.now + d,
                              !.lookback = lb]
    /\ UNCHANGED <<msg, raw, call, oz, rf, fx, wm>>

\* step 1: run_roster_refresh() inside try/except: a failure is logged; step 2: the
\* pull window is computed from the clock
DailyRosterRefresh ==
    /\ dy.pc = "refresh"
    /\ \E ok \in BOOLEAN :
        dy' = [dy EXCEPT !.pc = "pull", !.rosterOk = ok,
                         !.since = SinceDt(dy.now, dy.lookback), !.before = dy.now]
    /\ UNCHANGED <<msg, raw, call, oz, rf, fx, wm>>

\* step 3: run_pull(since_iso, before_iso) returns: the fetcher swallowed the
\* failure of a batch or not, and run_pull caught a failure of insert_raw_rows or
\* of upsert_messages or not
DailyPull ==
    /\ dy.pc = "pull"
    /\ \E b \in BOOLEAN, r \in BOOLEAN, u \in BOOLEAN :
        dy' = [dy EXCEPT !.pc = "reports", !.batchesOk = b, !.rawOk = r, !.upOk = u]
    /\ UNCHANGED <<msg, raw, call, oz, rf, fx, wm>>

\* step 3: run_pull raises (reading the roster ids or its second fetch failed),
\* which nothing in run_daily catches
DailyPullRaises ==
    /\ dy.pc = "pull"
    /\ dy' = [dy EXCEPT !.pc = "raised", !.batchesOk = FALSE]
    /\ UNCHANGED <<msg, raw, call, oz, rf, fx, wm>>

\* steps 4 to 6b, each inside try/except
DailyReports ==
    /\ dy.pc = "reports"
    /\ \E ok \in BOOLEAN : dy' = [dy EXCEPT !.pc = "watermark", !.reportsOk = ok]
    /\ UNCHANGED <<msg, raw, call, oz, rf, fx, wm>>

\* step 7: set_watermark(conn, now) inside try/except
DailySetWatermark ==
    /\ dy.pc = "watermark"
    /\ \E dbOk \in BOOLEAN : wm' = IF dbOk THEN Some(dy.now) ELSE wm
    /\ dy' = [dy EXCEPT !.pc = "done"]
    /\ UNCHANGED <<msg, raw, call, oz, rf, fx>>

InitDaily ==
    /\ msg = << >>
    /\ raw = << >>
    /\ call = NoCall
    /\ oz = {}
    /\ rf = << >>
    /\ fx = << >>
    /\ wm = None
    /\ dy = NoDaily

NextDaily ==
    DailyStart \/ DailyRosterRefresh \/ DailyPull \/ DailyPullRaises \/ DailyReports
    \/ DailySetWatermark

SpecDaily == InitDaily /\ [][NextDaily]_vars

-----------------------------------------------------------------------------
(* slurs_api.py: _steam3_to_steam64 *)

\* a Python int that does not fit the model's integers is held as the sequence of
\* its decimal digits, without leading zeros

\* STEAM64_BASE
Steam64BaseDigits ==
    <<"7", "6", "5", "6", "1", "1", "9", "7", "9", "6", "0", "2", "6", "5", "7", "2", "8">>

\* the value of a digit character
DigitVal(c) == CHOOSE d \in 0..9 : DigitChars[d + 1] = c

AllButLast(s) == SubSeq(s, 1, Len(s) - 1)

\* int(run) for a str of digits: leading zeros do not count
RECURSIVE IntOfRun(_)
IntOfRun(run) ==
    IF Len(run) > 1 /\ run[1] = "0" THEN IntOfRun(Tail(run)) ELSE run

\* a + b + carry on decimal digits
RECURSIVE AddDigits(_, _, _)
AddDigits(a, b, carry) ==
    IF a = << >> /\ b = << >>
    THEN IF carry = 0 THEN << >> ELSE <<DigitChars[carry + 1]>>
    ELSE LET da == IF a = << >> THEN 0 ELSE DigitVal(a[Len(a)])
             db == IF b = << >> THEN 0 ELSE DigitVal(b[Len(b)])
             t == da + db + carry
         IN  AddDigits(IF a = << >> THEN a ELSE AllButLast(a),
                       IF b = << >> THEN b ELSE AllButLast(b), t \div 10)
                 \o <<DigitChars[(t % 10) + 1]>>

\* re.findall(r"(\d+)", s): the maximal runs of digits of s, from left to right;
\* run is the run being read
RECURSIVE FindAllDigits(_, _)
FindAllDigits(s, run) ==
    IF s = << >> THEN IF run = << >> THEN << >> ELSE <<run>>
    ELSE IF Head(s) \in Digits THEN FindAllDigits(Tail(s), Append(run, Head(s)))
    ELSE (IF run = << >> THEN << >> ELSE <<run>>) \o FindAllDigits(Tail(s), << >>)

\* a mutant of LastOf: m[0] instead of m[-1]
FirstOf(m) == m[1]

\* m[-1]
LastOf(m) == m[Len(m)]

\* _steam3_to_steam64(s): None, or the int returned
Steam3ToSteam64(s) ==
    IF s = Empty THEN None
    ELSE LET m == FindAllDigits(s, << >>)
         IN  IF m = << >> THEN None
             ELSE Some(AddDigits(Steam64BaseDigits, IntOfRun(LastOf(m)), 0))

\* the characters of the generated inputs
IdChars == {"[", ":", "0", "9"}

\* the inputs of the modelled calls: every string over IdChars up to MaxIdLen,
\* Steam3 ids, bare account ids, one whose sum carries into the tenth digit, and
\* strings without a digit
ConvertInputs ==
    UNION {[1..n -> IdChars] : n \in 0..MaxIdLen}
    \cup {Sid3,
          <<"[", "U", ":", "1", ":", "3", "3", "8", "4", "4", "7", "1", "9", "]">>,
          <<"U", ":", "1", ":", "3", "3", "8", "4", "4", "7", "1", "9">>,
          <<"3", "9", "7", "3", "4", "2", "7", "2">>,
          <<"0", "0", "7">>,
          <<"[", "U", ":", "x", "]">>,
          SidA}

\* _steam3_to_steam64(call.arg) is called and returns
Steam3ToSteam64Call ==
    /\ call.op = "none"
    /\ call' = [op |-> "_steam3_to_steam64", arg |-> call.arg,
                ret |-> Steam3ToSteam64(call.arg), raised |-> FALSE]
    /\ UNCHANGED <<msg, raw, oz, rf, fx, wm, dy>>

InitConvert ==
    /\ msg = << >>
    /\ raw = << >>
    /\ \E s \in ConvertInputs : call = [op |-> "none", arg |-> s, ret |-> None, raised |-> FALSE]
    /\ oz = {}
    /\ rf = << >>
    /\ fx = << >>
    /\ wm = << >>
    /\ dy = << >>

NextConvert == Steam3ToSteam64Call

SpecConvert == InitConvert /\ [][NextConvert]_vars

-----------------------------------------------------------------------------
(* Claims about upsert_messages, checked under Spec *)

\* the last operation was an upsert_messages call that returned
UpsertReturned == call.op = "upsert_messages" /\ ~call.raised

\* what the claims call a row that passes validation, in the claims' own words: a
\* 17-digit numeric canonical id, a non-empty timestamp and a non-empty text
PassesValidation(r) ==
    /\ Len(SidStr(r)) = 17 /\ \A i \in 1..Len(SidStr(r)) : SidStr(r)[i] \in Digits
    /\ IsoOf(r) # Empty
    /\ TextOf(r) # None /\ TextOf(r)[1] # Empty

\* C1: after any sequence of upsert_messages calls the validated store never holds
\* two records with the same dedupe key, i.e. at most one record per
\* (canonical id, timestamp string, text) triple.
C1_NoTwoRecordsWithOneKey ==
    \A i, j \in 1..Len(msg) :
        \/ i = j
        \/ /\ msg[i].hash_key # msg[j].hash_key
           /\ <<msg[i].steamid64, msg[i].msg_time_utc, msg[i].text>>
                  # <<msg[j].steamid64, msg[j].msg_time_utc, msg[j].text>>

\* C1's case: a call held the same key twice (two rows of one call), the store
\* already held that key before an earlier call, and it holds it exactly once
C1_Witness ==
    /\ UpsertReturned
    /\ call.rows = <<F1, U1>>
    /\ Len(msg) = 2
    /\ msg[1].hash_key = HashKey(U1) /\ msg[1].message_id = U1.message_id
    /\ msg[2].hash_key = HashKey(U2)

\* C2: the count returned by upsert_messages equals the number of records the call
\* added to the validated store (a duplicate or an invalid row is never counted).
C2_ReturnedCountIsAdded ==
    [][(call'.op = "upsert_messages" /\ ~call'.raised)
           => call'.ret = Len(msg') - Len(msg)]_vars

\* C4: every record of the validated store has a 17-digit numeric canonical id, a
\* non-empty timestamp and a non-empty text; a call the database did not fail
\* does not raise, whatever rows fail validation, and every row of it that passes
\* validation was processed: the store holds a record with its dedupe key and
\* its canonical id afterwards.
C4_OnlyValidRowsAreInserted ==
    /\ \A i \in 1..Len(msg) :
           /\ Len(msg[i].steamid64) = 17
           /\ \A k \in 1..Len(msg[i].steamid64) : msg[i].steamid64[k] \in Digits
           /\ msg[i].msg_time_utc # Empty
           /\ msg[i].text # Empty
    /\ (call.op = "upsert_messages" /\ call.dbOk)
           => /\ ~call.raised
              /\ \A k \in 1..Len(call.rows) :
                     PassesValidation(call.rows[k])
                         => \E i \in 1..Len(msg) :
                                /\ msg[i].hash_key = HashKey(call.rows[k])
                                /\ msg[i].steamid64 = SidStr(call.rows[k])

\* C4's case: a call whose first row fails validation and whose second row passes
\* it; the store holds the second row's record and nothing else
C4_Witness ==
    /\ UpsertReturned
    /\ Len(call.rows) = 2
    /\ ~PassesValidation(call.rows[1])
    /\ PassesValidation(call.rows[2])
    /\ Len(msg) = 1
    /\ msg[1].hash_key = HashKey(call.rows[2])

-----------------------------------------------------------------------------
(* Claims about run_pull, checked under SpecPull *)

\* the step is run_pull's raw insert, and the database did not fail it
RawInsertStep == call.pc = "raw" /\ call'.pc = "upsert" /\ call'.rawOk

\* the step is run_pull returning (0, 0) at its `if not data` test
ReturnsUnwrittenStep == call.pc \in {"idle", "done"} /\ call'.pc = "done" /\ ~call'.raised

\* tbl2 is tbl followed by one raw record per row of rows, in order
AppendedRaw(tbl, tbl2, rows) ==
    /\ Len(tbl2) = Len(tbl) + Len(rows)
    /\ \A k \in 1..Len(tbl) : tbl2[k] = tbl[k]
    /\ \A k \in 1..Len(rows) : tbl2[Len(tbl) + k] = RawRecord(rows[k])

-----------------------------------------------------------------------------
(* Claims about the message fetcher, checked under SpecFetch *)

\* the rows pagination has collected so far are the upstream's rows 1, 2, ... in
\* order, each once
InUpstreamOrder(rows) == \A k \in 1..Len(rows) : rows[k].idx = k

\* a lexicon term occurs in the row's message as a case-insensitive substring
HasLexiconHit(r, lexWords) ==
    /\ r.message # None
    /\ \E w \in lexWords : IsSubstring(w, Lower(r.message[1]))

\* C5: when the classified pagination of a batch failed and its unclassified
\* fallback pagination succeeded while the lexicon is empty or unavailable, the
\* batch yields zero rows, however many rows either pagination collected.
C5_FailClosedOnEmptyLexicon ==
    \A k \in 1..Len(fx.finished) :
        (fx.finished[k].how = "fallback_ok" /\ fx.lex = {})
            => /\ fx.finished[k].rows = << >>
               /\ \A i \in 1..Len(fx.allRows) : fx.allRows[i].chunk # fx.finished[k].chunk

\* C5's case: the lexicon is empty, the classified pagination of the last batch
\* collected a page before it failed, the fallback pagination succeeded with
\* rows, and the batch yielded nothing
C5_Witness ==
    /\ fx.pc = "done"
    /\ fx.lex = {}
    /\ fx.finished # << >>
    /\ fx.finished[Len(fx.finished)].how = "fallback_ok"
    /\ fx.finished[Len(fx.finished)].rows = << >>
    /\ fx.rows1 # << >>
    /\ Len(fx.out) = 2

\* C6: with a classification requested, every row the fetcher returns either came
\* from a response to a request that carried the classification parameter or has
\* a message in which a lexicon term occurs as a case-insensitive substring.
C6_ReturnedRowsAreClassifiedOrHit ==
    fx.category =>
        /\ \A i \in 1..Len(fx.allRows) :
               fx.allRows[i].viaCat \/ HasLexiconHit(fx.allRows[i], fx.lex)
        /\ \A k \in 1..Len(fx.finished) : \A i \in 1..Len(fx.finished[k].rows) :
               \/ fx.finished[k].rows[i].viaCat
               \/ HasLexiconHit(fx.finished[k].rows[i], fx.lex)

\* C6's case: a fallback pagination collected a row without a lexicon term and a
\* row with one in other letter case; the call returned the second and not the
\* first
C6_Witness ==
    /\ fx.pc = "done"
    /\ fx.category
    /\ Len(fx.out) = 2
    /\ ~fx.out[1].viaCat /\ ~HasLexiconHit(fx.out[1], fx.lex)
    /\ fx.out[2].message = Some(TxOkBad)
    /\ \E i \in 1..Len(fx.allRows) :
           ~fx.allRows[i].viaCat /\ fx.allRows[i].message = Some(TxOkBad)
    /\ \A i \in 1..Len(fx.allRows) : fx.allRows[i].message # Some(TxHello)

\* C7: no page request carries more than the per-request cap of 10 account ids,
\* for every id set and every batch_size a caller passes.
C7_NoRequestExceedsCap ==
    \A i \in 1..Len(fx.log) :
        fx.log[i].ev = "req" => Len(fx.log[i].ids) <= PerRequestCap

\* C8: a failed batch never aborts the fetch: the call does not raise, and when it
\* returns every batch was attempted and the result holds the rows of every batch.
C8_FailedBatchNeverAborts ==
    /\ fx.pc # "raised"
    /\ fx.pc = "done" =>
           /\ Len(fx.finished) = Len(FxChunks)
           /\ \A k \in 1..Len(fx.finished) : \A i \in 1..Len(fx.finished[k].rows) :
                  \E j \in 1..Len(fx.allRows) :
                      /\ fx.allRows[j].chunk = fx.finished[k].chunk
                      /\ fx.allRows[j].idx = fx.finished[k].rows[i].idx

\* the number of requests of log[i]'s page among log[1..i]
Tries(log, i) ==
    Cardinality({h \in 1..i : /\ log[h].ev = "req"
                              /\ log[h].offset = log[i].offset
                              /\ log[h].cat = log[i].cat})

\* C9: within one pagination the same page is requested at most 1 + len(retries)
\* times; its j-th retry directly follows a sleep of the schedule's j-th delay and
\* a first request follows no sleep; and after a retry succeeds pagination goes on
\* from that page, so that the rows collected are the upstream's rows in order,
\* none skipped and none twice.
C9_RetriesFollowTheSchedule ==
    /\ \A i \in 1..Len(fx.log) :
           IF fx.log[i].ev = "req"
           THEN /\ fx.log[i].ids = FxChunks[fx.ci]
                /\ Tries(fx.log, i) <= 1 + Len(fx.retries)
                /\ IF Tries(fx.log, i) = 1
                   THEN i = 1 \/ fx.log[i - 1].ev = "req"
                   ELSE /\ i > 1
                        /\ fx.log[i - 1] = SleepEvent(fx.retries[Tries(fx.log, i) - 1])
           ELSE i < Len(fx.log) /\ fx.log[i + 1].ev = "req"
    /\ InUpstreamOrder(fx.out)
    /\ fx.pc \in {"request", "retry"} => fx.offset = Len(fx.out)
    /\ \A k \in 1..Len(fx.finished) :
           fx.finished[k].how = "ok"
               => /\ InUpstreamOrder(fx.finished[k].rows)
                  /\ Len(fx.finished[k].rows)
                         = Len(IF fx.category THEN fx.up.cat ELSE fx.up.nocat)

\* C9's case: the first page failed, failed again after the first delay and
\* succeeded after the second; the second page was then requested once at the
\* next offset
C9_Witness ==
    /\ Len(fx.retries) = 2
    /\ fx.limit = 1
    /\ Len(fx.log) = 6
    /\ fx.log[1].ev = "req" /\ fx.log[1].offset = 0
    /\ fx.log[2] = SleepEvent(10)
    /\ fx.log[3].ev = "req" /\ fx.log[3].offset = 0
    /\ fx.log[4] = SleepEvent(30)
    /\ fx.log[5].ev = "req" /\ fx.log[5].offset = 0
    /\ fx.log[6].ev = "req" /\ fx.log[6].offset = 1
    /\ Len(fx.out) = 2


-----------------------------------------------------------------------------
(* Claims about the roster refresh, checked under SpecRoster *)

\* b is the largest roster id of tbl, or 0 for an empty tbl
IsLargestRosterId(b, tbl) ==
    /\ tbl = {} => b = 0
    /\ tbl # {} => (\E p \in tbl : p.oz_id = b) /\ (\A p \in tbl : p.oz_id <= b)

\* C10: in one run of the roster refresh the ids probed are exactly base+1,
\* base+2, ... in increasing order, with base the largest roster id in storage
\* when the run started (0 if storage was empty); no id is probed twice and no id
\* <= base is probed.
C10_ProbesAscendFromStoredMax ==
    rf.pc # "idle" =>
        /\ \E b \in 0..(MaxBase + MaxProbe) :
               /\ IsLargestRosterId(b, rf.atStart)
               /\ \A k \in 1..Len(rf.probed) : rf.probed[k] = b + k
        /\ \A j, k \in 1..Len(rf.probed) : j < k => rf.probed[j] < rf.probed[k]
        /\ \A k \in 1..Len(rf.probed) : \A p \in rf.atStart : rf.probed[k] > p.oz_id

\* C10's case: a run that started on a roster with a gap below its largest id
\* stored the first id it probed and went on to probe two more
C10_Witness ==
    /\ rf.pc = "done"
    /\ rf.atStart = {[oz_id |-> 2, steamid64 |-> Some(SidB), current_name |-> NameAl]}
    /\ rf.probed = <<3, 4, 5>>
    /\ \E p \in oz : p.oz_id = 3
    /\ rf.changed >= 1


\* what refresh counts as not found: a result without a steamid64
CountsAsNotFound(r) == r.status # "error" /\ r.steamid64 = None

\* the number of results at the end of res that refresh counts as not found
RECURSIVE TrailingNotFound(_)
TrailingNotFound(res) ==
    IF res = << >> \/ ~CountsAsNotFound(res[Len(res)]) THEN 0
    ELSE 1 + TrailingNotFound(SubSeq(res, 1, Len(res) - 1))

OzIds(tbl) == {p.oz_id : p \in tbl}

\* C12: refresh returns (checked, changed) with checked the number of ids probed in
\* the run and changed the number of entries created or updated, so that
\* 0 <= changed <= checked <= max_probe; with storage holding ids {1,2,3},
\* threshold 20 and ids 4..23 all not found it returns checked = 20, changed = 0.
C12_ReturnsProbedAndChanged ==
    rf.pc = "done" =>
        /\ rf.checked = Len(rf.probed)
        /\ rf.changed = Cardinality({k \in 1..Len(rf.results) : rf.results[k].steamid64 # None})
        /\ \A k \in 1..Len(rf.results) :
               rf.results[k].steamid64 # None
                   => /\ rf.results[k].oz_id \in OzIds(oz)
                      /\ rf.results[k].oz_id \notin OzIds(rf.atStart)
        /\ 0 <= rf.changed /\ rf.changed <= rf.checked /\ rf.checked <= rf.maxProbe
        /\ (/\ OzIds(rf.atStart) = {1, 2, 3}
            /\ rf.stopAfter = DefaultStopAfter404
            /\ rf.maxProbe >= DefaultStopAfter404
            /\ \A k \in 1..Len(rf.results) : rf.results[k].status = "404")
               => /\ rf.checked = 20 /\ rf.changed = 0
                  /\ rf.probed = [k \in 1..20 |-> 3 + k]

\* C12's case: the run of the example has returned
C12_Witness ==
    /\ rf.pc = "done"
    /\ OzIds(rf.atStart) = {1, 2, 3}
    /\ rf.stopAfter = 20
    /\ Len(rf.results) = 20
    /\ \A k \in 1..20 : rf.results[k].status = "404" /\ rf.results[k].oz_id = 3 + k
    /\ rf.checked = 20 /\ rf.changed = 0
    /\ oz = rf.atStart /\ call = NoCall


\* the step is a round of refresh's loop whose probe_user call failed in transport
ProbeFailedStep ==
    /\ rf.pc = "probe"
    /\ Len(rf'.results) = Len(rf.results) + 1
    /\ rf'.results[Len(rf'.results)].status = "error"

\* C13: a transport failure of a single probe (a timeout, a connection error, an
\* HTTP status other than success and 404) is swallowed: it changes neither the
\* roster nor the not-found streak, the scan goes on with the next id, and the run
\* still returns its counts.
C13_ProbeFailureIsSwallowed ==
    [][ProbeFailedStep =>
           /\ rf'.pc \in {"probe", "done"}
           /\ rf'.streak = rf.streak
           /\ oz' = oz
           /\ rf'.pc = "probe" => rf'.i = rf.i + 1]_vars


\* the last operation was an upsert_oz_players call that returned
OzUpsertReturned == call.op = "upsert_oz_players" /\ ~call.raised

\* C14: a roster entry whose canonical id (steamid64) has been set never has it
\* become null again: every step leaves the entry in the roster with a non-null
\* steamid64.
C14_SteamidNeverBecomesNull ==
    [][\A p \in oz : p.steamid64 # None
           => \E q \in oz' : q.oz_id = p.oz_id /\ q.steamid64 # None]_vars

\* C14's case: entry 1 had its steamid64 set and the last call upserted a row
\* for roster id 1 without a steamid64, which changed nothing
C14_Witness ==
    /\ OzUpsertReturned
    /\ Len(call.rows) = 1
    /\ call.rows[1].oz_id = 1 /\ call.rows[1].steamid64 = None
    /\ call.rows[1].current_name = Some(NameAl)
    /\ call.ret = 0
    /\ \E p \in oz : p.oz_id = 1 /\ p.steamid64 = Some(SidA)


\* the row's scraped name is missing or blank
BlankName(r) == r.current_name = None \/ Strip(r.current_name[1]) = Empty

\* the step is an upsert_oz_players call that returned and whose k-th row creates
\* the entry of its roster id: it has a steamid64, no entry of that id was stored,
\* and no other row of the call has that id
CreatesEntry(k) ==
    /\ call'.op = "upsert_oz_players" /\ ~call'.raised
    /\ k \in 1..Len(call'.rows)
    /\ Truthy(call'.rows[k].steamid64)
    /\ call'.rows[k].oz_id \notin OzIds(oz)
    /\ \A j \in 1..Len(call'.rows) : j # k => call'.rows[j].oz_id # call'.rows[k].oz_id

\* the entry of roster id `id` in tbl has the name `name`
StoredName(tbl, id, name) == \E q \in tbl : q.oz_id = id /\ q.current_name = name

\* C15, as claimed: every roster entry has a non-empty display name, and an entry
\* created from a blank or missing scraped name is named "user_<roster_id>".
C15_BlankNameBecomesUserId ==
    [][/\ \A p \in oz' : p.current_name # Empty
       /\ \A k \in 1..MaxRows :
              (CreatesEntry(k) /\ BlankName(call'.rows[k]))
                  => StoredName(oz', call'.rows[k].oz_id,
                                <<"u", "s", "e", "r", "_">> \o IntStr(call'.rows[k].oz_id))]_vars

\* C15, amended: every roster entry has a non-empty display name, and an entry
\* created from a blank or missing scraped name is named "ozf_user_<roster_id>";
\* one created from any other scraped name is named with that name, stripped.
C15_BlankNameBecomesOzfUserId ==
    [][/\ \A p \in oz' : p.current_name # Empty
       /\ \A k \in 1..MaxRows :
              CreatesEntry(k)
                  => StoredName(oz', call'.rows[k].oz_id,
                                IF BlankName(call'.rows[k])
                                THEN <<"o", "z", "f", "_", "u", "s", "e", "r", "_">>
                                         \o IntStr(call'.rows[k].oz_id)
                                ELSE Strip(call'.rows[k].current_name[1]))]_vars

\* C15's case: on an empty roster a call created entry 1 from a name of blanks
C15_Witness ==
    /\ OzUpsertReturned
    /\ call.rows = <<[oz_id |-> 1, steamid64 |-> Some(SidA), current_name |-> Some(<<" ">>)]>>
    /\ oz = {[oz_id |-> 1, steamid64 |-> Some(SidA),
              current_name |-> <<"o", "z", "f", "_", "u", "s", "e", "r", "_", "1">>]}


-----------------------------------------------------------------------------
(* Claims about run_daily, checked under SpecDaily *)

\* C16: the watermark is written only at the end of a fully successful daily run:
\* if the roster refresh, a message batch, the raw insert or the validated upsert
\* failed, the watermark keeps its previous value.
C16_WatermarkOnlyAfterFullSuccess ==
    [][wm' # wm => /\ dy'.pc = "done"
                   /\ dy.rosterOk /\ dy.batchesOk /\ dy.rawOk /\ dy.upOk]_vars


-----------------------------------------------------------------------------
(* Claims about _steam3_to_steam64, checked under SpecConvert *)

\* s[i..j] is the last run of digits of s: a maximal run with no digit after it
IsLastDigitRun(s, i, j) ==
    /\ 1 <= i /\ i <= j /\ j <= Len(s)
    /\ \A k \in i..j : s[k] \in Digits
    /\ i = 1 \/ s[i - 1] \notin Digits
    /\ \A k \in (j + 1)..Len(s) : s[k] \notin Digits

\* the value of at most nine decimal digits
RECURSIVE DecValue(_)
DecValue(d) == IF d = << >> THEN 0 ELSE DecValue(AllButLast(d)) * 10 + DigitVal(d[Len(d)])

\* digits d, read as an integer, are 76561197960265728 + v, for 0 <= v < 10^9:
\* the last nine digits and the digits before them are compared separately
IsBasePlus(d, v) ==
    /\ Len(d) = 17
    /\ d[1] # "0"
    /\ DecValue(SubSeq(d, 9, 17)) = (960265728 + v) % 1000000000
    /\ DecValue(SubSeq(d, 1, 8)) = 76561197 + ((960265728 + v) \div 1000000000)

\* C17: for every input string with at least one run of digits the conversion
\* returns 76561197960265728 plus the integer value of the last digit run; for an
\* empty string or a string without a digit it returns None; it never raises.
C17_ConvertsLastDigitRun ==
    call.op = "_steam3_to_steam64" =>
        /\ ~call.raised
        /\ (\A k \in 1..Len(call.arg) : call.arg[k] \notin Digits) <=> call.ret = None
        /\ \A i, j \in 1..Len(call.arg) :
               IsLastDigitRun(call.arg, i, j)
                   => /\ call.ret # None
                      /\ j - i < 9 => IsBasePlus(call.ret[1], DecValue(SubSeq(call.arg, i, j)))

\* C17's case: the Steam3 id of the function's docstring, whose last run of digits
\* is not its only one
C17_Witness ==
    /\ call.op = "_steam3_to_steam64"
    /\ call.arg = <<"[", "U", ":", "1", ":", "3", "3", "8", "4", "4", "7", "1", "9", "]">>
    /\ call.ret = Some(<<"7", "6", "5", "6", "1", "1", "9", "7",
                         "9", "9", "4", "1", "1", "0", "4", "4", "7">>)


-----------------------------------------------------------------------------
(* Further claims about the roster refresh, checked under SpecRoster *)

\* the step is a round of refresh's loop whose probe got an HTTP success and
\* which did not fail in the database
ProbeSucceededStep ==
    /\ rf.pc = "probe"
    /\ rf'.pc # "raised"
    /\ Len(rf'.results) = Len(rf.results) + 1
    /\ rf'.results[Len(rf'.results)].status = "200"

\* C18: a roster entry is created on the first successful probe (HTTP success) of
\* a new roster id, a profile page without a linked account included: the probe
\* counts as found, resets the not-found streak and leaves an entry for that
\* roster id in storage.
C18_SuccessfulProbeCreatesEntry ==
    [][ProbeSucceededStep =>
           /\ rf'.streak = 0
           /\ rf'.results[Len(rf'.results)].oz_id \in OzIds(oz')]_vars


-----------------------------------------------------------------------------
(* Further claims about the message fetcher, checked under SpecFetch *)

\* log[i] is the first request of the batch's fallback pagination
IsFirstFallbackRequest(log, i) ==
    /\ fx.category
    /\ log[i].ev = "req" /\ ~log[i].cat
    /\ \A h \in 1..(i - 1) : log[h].ev = "req" => log[h].cat

\* the rows of rows that hold a lexicon term
LexiconHits(rows, lexWords) ==
    LET hit(r) == HasLexiconHit(r, lexWords) IN SelectSeq(rows, hit)

\* the last batch of the call has ended the way `how`
LastBatchEnded(how) ==
    /\ fx.pc = "done"
    /\ fx.finished # << >>
    /\ fx.finished[Len(fx.finished)].how = how

\* C19, as claimed: when a classified page request at offset k fails in a way that
\* qualifies for the fallback, the first unclassified request is for the same ids
\* and the same offset k, and the rows of the earlier classified pages are kept in
\* the batch result.
C19_FallbackRetriesTheSamePage ==
    /\ \A i \in 2..Len(fx.log) :
           IsFirstFallbackRequest(fx.log, i)
               => /\ fx.log[i].ids = fx.log[i - 1].ids
                  /\ fx.log[i].offset = fx.log[i - 1].offset
    /\ LastBatchEnded("fallback_ok") =>
           \A k \in 1..Len(fx.rows1) :
               \E j \in 1..Len(fx.allRows) :
                   /\ fx.allRows[j].chunk = fx.ci /\ fx.allRows[j].viaCat
                   /\ fx.allRows[j].idx = fx.rows1[k].idx

\* C19, amended: when the classified pagination of a batch gives up at offset k
\* with a status that qualifies for the fallback, the unclassified pagination is
\* run for the same ids from offset 0; if it succeeds the batch result is its rows
\* that hold a lexicon term and no row of the classified pages; if it fails the
\* batch result is the rows of the classified pages before offset k.
C19_FallbackRestartsTheBatch ==
    /\ \A i \in 2..Len(fx.log) :
           IsFirstFallbackRequest(fx.log, i)
               => /\ fx.log[i].ids = fx.log[i - 1].ids
                  /\ fx.log[i].offset = 0
                  /\ fx.log[i - 1].offset = Len(fx.rows1)
    /\ LastBatchEnded("fallback_ok") =>
           /\ fx.finished[Len(fx.finished)].rows = LexiconHits(fx.out, fx.lex)
           /\ \A j \in 1..Len(fx.allRows) :
                  fx.allRows[j].chunk = fx.ci => ~fx.allRows[j].viaCat
    /\ LastBatchEnded("fallback_failed") =>
           /\ fx.finished[Len(fx.finished)].rows = fx.rows1
           /\ \A k \in 1..Len(fx.rows1) : fx.rows1[k].viaCat /\ fx.rows1[k].idx = k

\* C19's case: the classified page at offset 1 failed after the page at offset 0
\* had brought a row; the fallback started at offset 0, succeeded, and the batch
\* result is one unclassified row with a lexicon term
C19_Witness ==
    /\ LastBatchEnded("fallback_ok")
    /\ fx.limit = 1 /\ fx.retries = << >>
    /\ Len(fx.rows1) = 1
    /\ Len(fx.log) >= 3
    /\ fx.log[2].cat /\ fx.log[2].offset = 1
    /\ IsFirstFallbackRequest(fx.log, 3) /\ fx.log[3].offset = 0
    /\ Len(fx.finished[Len(fx.finished)].rows) = 1
    /\ ~fx.finished[Len(fx.finished)].rows[1].viaCat


\* C20, as claimed: after a classified page failed with a qualifying error the
\* unclassified fallback request is attempted before any delay of the backoff
\* schedule is applied: no sleep precedes the first fallback request of a batch.
C20_FallbackBeforeBackoff ==
    \A i \in 1..Len(fx.log) :
        IsFirstFallbackRequest(fx.log, i)
            => \A h \in 1..(i - 1) : fx.log[h].ev # "sleep"

\* C20, amended: the backoff schedule is applied to the failing classified page
\* first; the unclassified fallback request is issued only after that page was
\* requested 1 + len(retries) times, every delay of the schedule slept in between
\* (none for an empty schedule), and the fallback pagination applies the schedule
\* to its own failing pages in the same way.
C20_BackoffBeforeFallback ==
    /\ \A i \in 2..Len(fx.log) :
           IsFirstFallbackRequest(fx.log, i)
               => /\ fx.log[i - 1].ev = "req" /\ fx.log[i - 1].cat
                  /\ Tries(fx.log, i - 1) = 1 + Len(fx.retries)
                  /\ \A j \in 1..Len(fx.retries) :
                         /\ i - 1 - 2 * j >= 1
                         /\ fx.log[i - 2 * j]
                                = SleepEvent(fx.retries[Len(fx.retries) + 1 - j])
                         /\ fx.log[i - 1 - 2 * j].ev = "req"
                         /\ fx.log[i - 1 - 2 * j].offset = fx.log[i - 1].offset
    /\ \A i \in 1..Len(fx.log) :
           (fx.log[i].ev = "req" /\ ~fx.log[i].cat /\ Tries(fx.log, i) > 1)
               => fx.log[i - 1] = SleepEvent(fx.retries[Tries(fx.log, i) - 1])

\* C20's case: the classified page failed three times, with sleeps of 10 and 30
\* seconds in between, before the first fallback request was issued
C20_Witness ==
    /\ fx.category
    /\ Len(fx.retries) = 2
    /\ Len(fx.log) = 6
    /\ fx.log[1].ev = "req" /\ fx.log[1].cat
    /\ fx.log[2] = SleepEvent(10)
    /\ fx.log[3].ev = "req" /\ fx.log[3].cat
    /\ fx.log[4] = SleepEvent(30)
    /\ fx.log[5].ev = "req" /\ fx.log[5].cat
    /\ IsFirstFallbackRequest(fx.log, 6)

\* the 5xx codes among the statuses of the modelled responses
ServerErrorStatuses == {"500", "501"}

\* the step is the last try of a classified page: it fails with status s, as every
\* earlier try of that page did, and the retry schedule is used up
LastTryFailsWith(s) ==
    /\ FxCat
    /\ \A k \in 1..Len(fx.tried) : fx.tried[k] = s
    /\ \/ /\ fx.pc = "request"
          /\ fx.retries = << >>
          /\ fx' = OnResponse([fx EXCEPT !.log = Append(@, ReqEvent(fx, TRUE))], TRUE, s)
       \/ /\ fx.pc = "retry"
          /\ ~RetryAgain(fx.retry, fx.retries)
          /\ fx' = OnResponse([fx EXCEPT !.log = @ \o <<SleepEvent(fx.retries[fx.retry]),
                                                        ReqEvent(fx, TRUE)>>],
                              TRUE, s)

\* the next request is the first one of the unclassified pagination of the batch
FallbackBegins ==
    /\ fx'.pc = "request"
    /\ fx'.phase = "fallback"
    /\ fx'.ci = fx.ci

\* C21: for every 5xx status code and for a non-JSON success body, a classified
\* page request that fails that way through all its retries is followed by a
\* request for the same batch without the classification parameter.
C21_EveryServerErrorFallsBack ==
    [][\A s \in ServerErrorStatuses \cup {"non_json"} :
           LastTryFailsWith(s) => FallbackBegins]_vars

\* C21, for the statuses _fetch_chunk lists: 500, a timeout and a non-JSON body
\* are followed by the unclassified request for the same batch.
C21_ListedStatusesFallBack ==
    [][\A s \in Serverish \cap SoftStatuses :
           LastTryFailsWith(s) => FallbackBegins]_vars

\* the requests of the running pagination, in the order they were made
PaginationRequests ==
    LET mine(e) == e.ev = "req" /\ e.cat = FxCat IN SelectSeq(fx.log, mine)

\* the first n rows the upstream holds for the running pagination, as its pages
\* deliver them
UpstreamPrefix(n) == Page([fx EXCEPT !.offset = 0, !.limit = n], FxCat)

\* the number of rows the upstream holds for the running pagination
UpstreamLen == Len(IF FxCat THEN fx.up.cat ELSE fx.up.nocat)

\* the running pagination of the last batch has returned ok = True
PaginationSucceeded == LastBatchEnded("ok") \/ LastBatchEnded("fallback_ok")

\* C22: a pagination requests the pages at offsets 0, limit, 2*limit, ... in
\* increasing order (an offset is requested again only while its page is being
\* retried, and never after a later one); every page before the current offset was
\* full and the rows collected are the concatenation of those pages, each once; a
\* successful pagination ended with the first page shorter than limit, requested
\* nothing after it, and returns all pages in request order.
C22_PagesInOrderOnceEach ==
    LET R == PaginationRequests
    IN  /\ fx.pc \in {"request", "retry", "done"} /\ R # << >> =>
               /\ R[1].offset = 0
               /\ \A i \in 2..Len(R) :
                      R[i].offset \in {R[i - 1].offset, R[i - 1].offset + fx.limit}
               /\ R[Len(R)].offset <= fx.offset
        /\ fx.pc \in {"request", "retry"} =>
               /\ fx.offset <= UpstreamLen
               /\ fx.out = UpstreamPrefix(fx.offset)
        /\ PaginationSucceeded =>
               /\ R[Len(R)].offset = fx.offset
               /\ fx.offset <= UpstreamLen
               /\ UpstreamLen - fx.offset < fx.limit
               /\ fx.out = UpstreamPrefix(UpstreamLen)
               /\ \A k \in 1..Len(fx.out) : fx.out[k].idx = k
        /\ \A k \in 1..Len(fx.finished) :
               fx.finished[k].how = "ok" =>
                   fx.finished[k].rows
                       = Page([fx EXCEPT !.offset = 0, !.limit = Len(fx.up.cat) + Len(fx.up.nocat),
                                         !.ci = fx.finished[k].chunk],
                              fx.category)

\* C22's case: a classified pagination with limit 1 of an upstream holding two rows
\* requested offsets 0, 1 and 2, ended on the empty third page and returned the
\* two rows in order
C22_Witness ==
    /\ LastBatchEnded("ok")
    /\ fx.category /\ fx.limit = 1 /\ fx.retries = << >>
    /\ Len(fx.log) = 3
    /\ fx.log[1].offset = 0 /\ fx.log[2].offset = 1 /\ fx.log[3].offset = 2
    /\ Len(fx.out) = 2
    /\ fx.out[1].idx = 1 /\ fx.out[2].idx = 2

-----------------------------------------------------------------------------
(* Claims about the pull window of run_daily, checked under SpecDaily *)

\* the pull window of the running call has been computed
WindowComputed == dy.pc \in {"pull", "reports", "watermark"}

\* C23: the lower time bound of each daily pull equals the watermark persisted by
\* the previous successful run, so that consecutive runs leave no gap between the
\* end of one ingested window and the start of the next.
C23_PullStartsAtWatermark ==
    (WindowComputed /\ wm # None) => dy.since = wm[1]

\* C23, what the pull window is: it ends at the clock reading of the run and
\* begins max(1, LOOKBACK_HOURS) hours before it, whatever the watermark holds.
C23_PullWindowIsLookback ==
    WindowComputed =>
        /\ dy.before = dy.now
        /\ dy.since = dy.now - (IF dy.lookback >= 1 THEN dy.lookback ELSE 1)

\* C23's failing case: the previous run persisted its watermark at hour 24, and
\* the run 26 hours later pulls from hour 25 on: the hour after the watermark is
\* in no window
C23_Witness ==
    /\ WindowComputed
    /\ wm = Some(24)
    /\ dy.now = 50 /\ dy.lookback = 25
    /\ dy.since = 25

-----------------------------------------------------------------------------
(* Claims about the persistence of a refresh in progress, checked under SpecRoster *)

\* the k-th probe of the running refresh is over: a later id is being handled, or
\* the run went on or returned after it
HandledBefore(k) == k < Len(rf.results) \/ rf.pc \in {"probe", "done"}

\* storage holds the entry the probe result rec exposes
Persisted(rec) ==
    \E row \in oz : row.oz_id = rec.oz_id /\ row.steamid64 = rec.steamid64

\* C24: each entry refresh finds is upserted and committed before the next id is
\* probed: at every point of a run, interrupted or not, every entry found at an id
\* before the one being handled is in storage.
C24_FoundEntriesArePersistedPerId ==
    \A k \in 1..Len(rf.results) :
        (Truthy(rf.results[k].steamid64) /\ HandledBefore(k)) => Persisted(rf.results[k])

\* C24's case: the run found an entry at its first id and stored it, and was then
\* interrupted by the probe of the next id raising
C24_Witness ==
    /\ rf.pc = "raised"
    /\ Len(rf.results) = 2
    /\ Truthy(rf.results[1].steamid64)
    /\ rf.results[2].status = "error"
    /\ Persisted(rf.results[1])
    /\ \A row \in rf.atStart : row.oz_id # rf.results[1].oz_id

-----------------------------------------------------------------------------
(* Claims about _apply_allowlist_filter, checked under SpecFilter *)

FilterReturned == call.op = "_apply_allowlist_filter"

\* the text the filter reads from a row: "message", or "text" when that is absent
RowText(r) == IF r.message # None THEN r.message[1] ELSE IF r.text # None THEN r.text[1] ELSE Empty

\* t holds one of the terms as a whole word, in any letter case: an occurrence
\* with no letter, digit or underscore next to it on either side
HoldsWholeWord(t, words) ==
    \E w \in words : \E a \in 1..Len(t) :
        /\ a + Len(w) - 1 <= Len(t)
        /\ Lower(SubSeq(t, a, a + Len(w) - 1)) = w
        /\ a = 1 \/ t[a - 1] \notin WordChars
        /\ a + Len(w) - 1 = Len(t) \/ t[a + Len(w)] \notin WordChars

\* the filter is enabled: dropping is switched on and the allow-list is not empty
FilterEnabled == call.cfg.doDrop /\ call.cfg.allowWords # {}

\* what the filter reports adds up, and the rows kept are those of the input that
\* are not to be dropped, in the input's order
KeepsAllBut(toDrop(_)) ==
    /\ call.ret.kept = SelectSeq(call.rows, LAMBDA r : ~toDrop(r))
    /\ call.ret.nkept = Len(call.ret.kept)
    /\ call.ret.nkept + call.ret.dropped = Len(call.rows)
    /\ call.ret.enabled = FilterEnabled

-----------------------------------------------------------------------------
(* Claims about the stored message records, checked under Spec *)

\* C26: validated message records are immutable and never deleted: every
\* upsert_messages call leaves each record already stored as it is, in its place
\* (a row with a stored dedupe key and another log id or message id changes
\* nothing), so the stored records only grow.
C26_StoredRecordsNeverChange ==
    [][/\ Len(msg') >= Len(msg)
       /\ \A i \in 1..Len(msg) : msg'[i] = msg[i]]_vars

\* C26's case: F1 is stored with log id 7 and no message id, and a call with U1
\* (the same key, message id 2, no log id) returned leaving that record alone
C26_Witness ==
    /\ UpsertReturned
    /\ call.rows = <<U1>>
    /\ HashKey(U1) = HashKey(F1)
    /\ MsgRecord(U1) # MsgRecord(F1)
    /\ msg = <<MsgRecord(F1)>>

-----------------------------------------------------------------------------
(* Claims about the batches of fetch_messages_for_steamids, checked under SpecFetch *)

\* the ids of the batches that were fetched, batch after batch
RECURSIVE BatchIds(_)
BatchIds(fin) == IF fin = << >> THEN << >> ELSE Head(fin).ids \o BatchIds(Tail(fin))

\* the elements of steamids that are numeric, in the order they were passed
PassedNumericIds ==
    LET numeric(x) == x >= 0 IN SelectSeq(fx.steamids, numeric)

\* C27: the batches requested partition the requested ids: the ids of the batches,
\* taken batch after batch, are the numeric ids passed in, in the order passed (so
\* each is in exactly one batch and no other id is requested); no batch is empty,
\* every request carries the ids of the batch being fetched, and a call that
\* returns has requested every batch.
C27_BatchesPartitionTheIds ==
    fx.pc # "start" =>
        LET done == BatchIds(fx.finished)
            ids == PassedNumericIds
            running == fx.pc \in {"request", "retry"}
        IN  /\ Len(done) <= Len(ids)
            /\ done = SubSeq(ids, 1, Len(done))
            /\ \A k \in 1..Len(fx.finished) :
                   /\ fx.finished[k].ids # << >>
                   /\ fx.finished[k].chunk = k
            /\ \A i \in 1..Len(fx.log) :
                   fx.log[i].ev = "req" =>
                       /\ fx.log[i].ids # << >>
                       /\ running =>
                              fx.log[i].ids
                                  = SubSeq(ids, Len(done) + 1, Len(done) + Len(fx.log[i].ids))
                       /\ ~running => fx.log[i].ids = fx.finished[Len(fx.finished)].ids
            /\ fx.pc = "done" => done = ids

\* C27's case: steamids 1, -1, 1, 2 with batch_size 2 were fetched as the batches
\* (1, 1) and (2), and the call returned
C27_Witness ==
    /\ fx.pc = "done"
    /\ fx.steamids = <<1, -1, 1, 2>>
    /\ Len(fx.finished) = 2
    /\ fx.finished[1].ids = <<1, 1>>
    /\ fx.finished[2].ids = <<2>>
    /\ \E i \in 1..Len(fx.log) : fx.log[i].ev = "req" /\ fx.log[i].ids = <<2>>

-----------------------------------------------------------------------------
(* Claims about the two writes of run_pull, checked under SpecPull *)

\* every valid row of rows has its dedupe key in tbl
ValidRowsStored(rows, tbl) ==
    \A k \in 1..Len(rows) : RowValid(rows[k]) => HashKeyExists(tbl, HashKey(rows[k]))

\* C28: a failed raw insert does not prevent the validated upsert of the same
\* pull: whether insert_raw_rows failed or not the upsert is attempted next, a
\* failed raw insert writing nothing and counting 0.  A failed upsert does not undo
\* or prevent the raw insert: the upsert step leaves the raw store and its count as
\* they are.  After the two writes run_pull returns (inserted_raw, upserted), each
\* count 0 for a write that failed, and does not raise (the connection opened
\* around the two writes not failing).
C28_WriteFailuresAreIsolated ==
    [][/\ (call.pc = "raw" /\ call'.connOk) =>
              /\ call'.pc = "upsert"
              /\ msg' = msg
              /\ call'.rawOk => AppendedRaw(raw, raw', call.kept)
                                /\ call'.ret[1] = Len(call.kept)
              /\ ~call'.rawOk => raw' = raw /\ call'.ret[1] = 0
       /\ call.pc = "upsert" =>
              /\ call'.pc = "done"
              /\ raw' = raw
              /\ call'.ret[1] = call.ret[1]
              /\ call'.connOk => ~call'.raised
              /\ call'.upOk => ValidRowsStored(call.kept, msg')
              /\ ~call'.upOk => msg' = msg /\ call'.ret[2] = 0]_vars

\* C28's case: an earlier pull stored F1 though its raw insert failed (the raw
\* store holds no record of F1), and the pull that just returned (1, 0) wrote F2 to
\* the raw store though its upsert failed
C28_Witness ==
    /\ call.pc = "done" /\ ~call.raised
    /\ call.kept = <<F2>>
    /\ call.rawOk /\ ~call.upOk
    /\ call.ret = <<1, 0>>
    /\ raw = <<RawRecord(F2)>>
    /\ msg = <<MsgRecord(F1)>>

-----------------------------------------------------------------------------
(* Claims about the termination of the fetcher, checked under SpecFetchLive *)

\* fetch_messages_for_steamids has returned or raised
FetchEnded == fx.pc \in {"done", "raised"}

\* C29: fetch_messages_for_steamids always terminates, for every configured page
\* size, batch size and finite retry schedule, the upstream holding finitely many
\* rows per batch.
C29_FetchAlwaysTerminates == <>FetchEnded

\* C29, for page sizes of 1 and more: the call terminates.
C29_FetchTerminatesWithPositiveLimit == (fx.limit >= 1) => <>FetchEnded

\* C29's clause on the offset, for page sizes of 1 and more: when a page succeeded
\* and another is requested, the offset has grown.
C29_OffsetGrowsWithPositiveLimit ==
    [][(/\ fx.limit >= 1
        /\ fx.pc \in {"request", "retry"} /\ fx'.pc = "request"
        /\ fx'.ci = fx.ci /\ fx'.phase = fx.phase) => fx'.offset > fx.offset]_vars

-----------------------------------------------------------------------------
(* Claims about the dedupe key, checked under Spec *)

\* the (canonical id, stripped timestamp, text) of a row
KeyParts(r) == <<SidStr(r), IsoOf(r), TextOf(r)>>

\* the store holds a record of the message of row r
MessageStored(r) ==
    \E i \in 1..Len(msg) :
        <<msg[i].steamid64, msg[i].msg_time_utc, Some(msg[i].text)>> = KeyParts(r)

\* C30: the dedupe string id|timestamp|text is injective on validated rows: two
\* rows that pass validation and differ in canonical id, stripped timestamp or
\* text never have the same dedupe key, so a message that differs from every stored
\* one is never dropped as a duplicate: after a call that returned, the store holds
\* a record of the message of each of its valid rows.
C30_DedupeKeyIsInjective ==
    UpsertReturned =>
        /\ \A j, k \in 1..Len(call.rows) :
               (/\ RowValid(call.rows[j]) /\ RowValid(call.rows[k])
                /\ KeyParts(call.rows[j]) # KeyParts(call.rows[k]))
                   => HashKey(call.rows[j]) # HashKey(call.rows[k])
        /\ \A k \in 1..Len(call.rows) :
               RowValid(call.rows[k]) => MessageStored(call.rows[k])

\* C30, for timestamps without the separator: two valid rows whose stripped
\* timestamps hold no "|" have the same dedupe key only if they agree in canonical
\* id, timestamp and text.
C30_InjectiveWithoutSeparatorInTimestamp ==
    \A r1, r2 \in SampleRows \cup PipeRows :
        (/\ RowValid(r1) /\ RowValid(r2)
         /\ \A k \in 1..Len(IsoOf(r1)) : IsoOf(r1)[k] # "|"
         /\ \A k \in 1..Len(IsoOf(r2)) : IsoOf(r2)[k] # "|"
         /\ KeyParts(r1) # KeyParts(r2))
            => HashKey(r1) # HashKey(r2)

\* C30's failing case: P1 was stored, and a call with P2, another timestamp and
\* another text, returned without storing it
C30_Witness ==
    /\ UpsertReturned
    /\ call.rows = <<P2>>
    /\ KeyParts(P1) # KeyParts(P2)
    /\ msg = <<MsgRecord(P1)>>

=============================================================================
